---------------------------- MODULE Spec2Model ----------------------------
(***************************************************************************)
(* Model of the claude-tracker ingestion pipeline (src/cli/src).           *)
(*                                                                         *)
(*   parser.rs         parse_session_file: one JSON-lines log -> session   *)
(*   cursor_parser.rs  load_bubbles_from_global / resolve_timestamp /      *)
(*                     build_parsed_session: SQLite bubbles -> session     *)
(*                                                                         *)
(* Conventions.                                                            *)
(*   Option<T>   None is <<>>, Some(x) is <<x>>.                           *)
(*   String      a timestamp string is a sequence of naturals compared     *)
(*               lexicographically as Rust compares the bytes of a String; *)
(*               the empty string is <<>>.  Other strings (ids, types,     *)
(*               model names) are only tested for equality and are TLA+    *)
(*               strings.                                                  *)
(*   f64 ms      an epoch-millisecond quantity v is the pair               *)
(*               [hi |-> v \div 10^6, lo |-> v % 10^6]: the values of the  *)
(*               program (1e12 and above) do not fit the 32-bit integers   *)
(*               of the model checker.  Only whole milliseconds occur.     *)
(*   HashMap     a function; its iteration order is not determined by the  *)
(*               program (std RandomState), so every order is a possible   *)
(*               outcome of into_values().                                 *)
(***************************************************************************)
EXTENDS Integers, Sequences, FiniteSets, TLC

VARIABLES
    pc,              \* position in the normalizer that is running
    raw,             \* parser.rs:22   the lines of the log file
    line_idx,        \* parser.rs:32   index of the next line of raw
    user_events,     \* parser.rs:24
    assistant_by_id, \* parser.rs:25
    assistant_no_id, \* parser.rs:26
    all_events,      \* parser.rs:112  merged and sorted events
    ev_idx,          \* parser.rs:121  index of the next event of all_events
    cwd,             \* parser.rs:28
    duration_ms,     \* parser.rs:27 / cursor_parser.rs:244
    started_at,      \* parser.rs:29 / cursor_parser.rs:239
    last_active,     \* parser.rs:30 / cursor_parser.rs:240
    messages,        \* parser.rs:93 / cursor_parser.rs:232
    tokens,          \* parser.rs:95 / cursor_parser.rs:234
    model,           \* parser.rs:103
    result,          \* the ParsedSession returned, None before the return
    first_result,    \* the ParsedSession of an earlier parse of the same content
    tool_usage,      \* parser.rs:96
    lines_added,     \* parser.rs:97
    lines_removed,   \* parser.rs:98
    file_contributions, \* parser.rs:99
    db_rows,         \* cursor_parser.rs:177  bubbles as the query returns them
    bubbles,         \* cursor_parser.rs:187  bubbles after the sort by timing
    bubble_idx,      \* cursor_parser.rs:255  index of the next bubble
    composer_created_at, \* cursor_parser.rs:108
    start_time,      \* cursor_parser.rs:265  start_time of the bubble last seen
    claude_projects, \* scanner.rs:106   containers of the JSON-lines scan
    cursor_projects, \* scanner.rs:107   containers of the Cursor scan
    by_path,         \* scanner.rs:110
    proj_idx,        \* index of the next container of the list being merged
    scanned,         \* scanner.rs:130 / main.rs:64
    cost_args,       \* format.rs:96     the arguments of estimate_cost
    cost,            \* format.rs:103    what estimate_cost returns, None before
    project_sessions, \* main.rs:70 / metrics.rs:7   (project_id, sessions) pairs
    summaries,       \* metrics.rs:9
    agg_idx,         \* index of the next project of the loop that is running
    totals,          \* metrics.rs:88-99  the accumulators of compute_global_metrics
    metrics,         \* metrics.rs:143    the GlobalMetrics returned, None before
    root_dir,        \* scanner.rs:17     the projects directory as the scan finds it
    cursor_scan,     \* cursor_scanner.rs:86  the workspace storage of Cursor
    project_phase,   \* main.rs:72        where the worker of each project is
    session_results, \* main.rs:87        what the worker of each session handle returned
    parse_calls,     \* main.rs:92-95     calls of a normalizer, by session handle
    counter,         \* main.rs:67
    load_result,     \* main.rs:106       what load_data returns, None before
    progress,        \* main.rs:49        the sender: "absent", or its receiver "alive" or "gone"
    sent,            \* main.rs:53, 81    the messages handed to tx.send, in order
    ticket,          \* main.rs:78        n of the project workers that counted
    app,             \* tui_app.rs:63     the App of run_tui
    channel,         \* main.rs:142       the mpsc channel of LoadMessage
    loader           \* main.rs:143-148   the background thread of run_tui

vars == <<pc, raw, line_idx, user_events, assistant_by_id, assistant_no_id,
          all_events, ev_idx, cwd, duration_ms, started_at, last_active,
          messages, tokens, model, result, first_result,
          tool_usage, lines_added, lines_removed, file_contributions,
          db_rows, bubbles, bubble_idx, composer_created_at, start_time,
          claude_projects, cursor_projects, by_path, proj_idx, scanned,
          cost_args, cost,
          project_sessions, summaries, agg_idx, totals, metrics,
          root_dir, cursor_scan, project_phase, session_results, parse_calls,
          counter, load_result, progress, sent, ticket, app, channel, loader>>

contrib_vars == <<tool_usage, lines_added, lines_removed, file_contributions>>

jsonl_vars == <<raw, line_idx, user_events, assistant_by_id, assistant_no_id,
                all_events, ev_idx, cwd, model, first_result, contrib_vars>>

cursor_vars == <<db_rows, bubbles, bubble_idx, composer_created_at, start_time>>

\* The variables of the two normalizers other than pc.
normalizer_vars == <<jsonl_vars, cursor_vars, duration_ms, started_at, last_active,
                     messages, tokens, result>>

scan_vars == <<claude_projects, cursor_projects, by_path, proj_idx, scanned>>

cost_vars == <<cost_args, cost>>

metrics_vars == <<project_sessions, summaries, agg_idx, totals, metrics>>

notify_vars == <<progress, sent, ticket>>

load_vars == <<root_dir, cursor_scan, project_phase, session_results, parse_calls,
               counter, load_result, notify_vars>>

tui_vars == <<app, channel, loader>>

pipeline_vars == <<scan_vars, cost_vars, metrics_vars, load_vars, tui_vars>>

\* What a stage leaves alone besides the normalizers.
not_scan_vars == <<cost_vars, metrics_vars, load_vars, tui_vars>>

not_cost_vars == <<scan_vars, metrics_vars, load_vars, tui_vars>>

not_metrics_vars == <<scan_vars, cost_vars, load_vars, tui_vars>>

\* The variables of the stages after the normalizers while a normalizer runs alone.
ScanIdle ==
    /\ claude_projects = <<>>
    /\ cursor_projects = <<>>
    /\ by_path = <<>>
    /\ proj_idx = 1
    /\ scanned = <<>>

CostIdle ==
    /\ cost_args = <<>>
    /\ cost = <<>>

MetricsIdle ==
    /\ project_sessions = <<>>
    /\ summaries = <<>>
    /\ agg_idx = 1
    /\ totals = <<>>
    /\ metrics = <<>>

LoadIdle ==
    /\ root_dir = <<>>
    /\ cursor_scan = <<>>
    /\ project_phase = <<>>
    /\ session_results = <<>>
    /\ parse_calls = <<>>
    /\ counter = 0
    /\ load_result = <<>>
    /\ progress = "absent"
    /\ sent = <<>>
    /\ ticket = <<>>

TuiIdle ==
    /\ app = <<>>
    /\ channel = <<>>
    /\ loader = <<>>

PipelineIdle ==
    /\ ScanIdle
    /\ CostIdle
    /\ MetricsIdle
    /\ LoadIdle
    /\ TuiIdle

\* The variables of the normalizers while a later stage runs alone.
NormalizersIdle ==
    /\ raw = <<>>
    /\ line_idx = 1
    /\ user_events = <<>>
    /\ assistant_by_id = <<>>
    /\ assistant_no_id = <<>>
    /\ all_events = <<>>
    /\ ev_idx = 1
    /\ cwd = ""
    /\ model = ""
    /\ first_result = <<>>
    /\ tool_usage = <<>>
    /\ lines_added = 0
    /\ lines_removed = 0
    /\ file_contributions = <<>>
    /\ db_rows = <<>>
    /\ bubbles = <<>>
    /\ bubble_idx = 1
    /\ composer_created_at = <<>>
    /\ start_time = <<>>
    /\ duration_ms = 0
    /\ started_at = <<>>
    /\ last_active = <<>>
    /\ messages = <<>>
    /\ tokens = [input |-> 0, output |-> 0, cache_read |-> 0, cache_creation |-> 0]
    /\ result = <<>>

-----------------------------------------------------------------------------
(* Bounds of the model.                                                    *)

\* Longest log file (in lines) the JSON-lines specification reads.
MaxLines == 3

\* Largest number of bubbles a Cursor session holds.
MaxBubbles == 3

-----------------------------------------------------------------------------
(* Option and String.                                                      *)

None == <<>>

Some(x) == <<x>>

IsSome(o) == o # <<>>

\* Option::unwrap_or
UnwrapOr(o, d) == IF o = <<>> THEN d ELSE o[1]

EmptyString == <<>>

\* <String as Ord>::cmp(a, b) == Less: lexicographic, a proper prefix is less.
RECURSIVE StrLt(_, _)
StrLt(a, b) ==
    IF b = <<>> THEN FALSE
    ELSE IF a = <<>> THEN TRUE
    ELSE IF a[1] < b[1] THEN TRUE
    ELSE IF a[1] > b[1] THEN FALSE
    ELSE StrLt(Tail(a), Tail(b))

StrLeq(a, b) == ~StrLt(b, a)

\* The sequences over S in some order: the orders a HashMap may iterate in.
Orderings(S) ==
    {f \in [1..Cardinality(S) -> S] : \A i, j \in 1..Cardinality(S) : f[i] = f[j] => i = j}


-----------------------------------------------------------------------------
(* JSON-lines records (models.rs RawEvent, RawMessage, TokenUsage).        *)

SKIP_TYPES == {"progress", "queue-operation", "file-history-snapshot"}

\* TokenTotals::zero
TokenTotalsZero == [input |-> 0, output |-> 0, cache_read |-> 0, cache_creation |-> 0]

TokenUsage(i, o, cr, cc) ==
    [input_tokens |-> i, output_tokens |-> o,
     cache_read_input_tokens |-> cr, cache_creation_input_tokens |-> cc]

\* content is None unless it is a JSON array, and then Some(blocks).
RawMessage(role, id, mdl, usage) ==
    [role |-> role, id |-> id, model |-> mdl, usage |-> usage, content |-> None]

RawEvent(type, subtype, c, uuid, ts, msg, dur) ==
    [event_type |-> type, subtype |-> subtype, cwd |-> c, uuid |-> uuid,
     timestamp |-> ts, message |-> msg, duration_ms |-> dur]

\* A line of the file: blank, not a JSON RawEvent, or a RawEvent.
BlankLine == [kind |-> "blank"]

MalformedLine == [kind |-> "malformed"]

JsonLine(event) == [kind |-> "json", event |-> event]

\* line.trim().is_empty(), then serde_json::from_str: Some(event) or None.
ParseLine(line) == IF line.kind = "json" THEN Some(line.event) ELSE None

-----------------------------------------------------------------------------
(* parse_session_file, first loop: one line.                               *)

\* Faulty variant of MapInsert: the first value of a key is kept.
MapInsertKeepFirst(m, k, v) ==
    [x \in DOMAIN m \cup {k} |-> IF x \in DOMAIN m THEN m[x] ELSE v]

\* HashMap::insert: the value of an existing key is replaced.
MapInsert(m, k, v) == [x \in DOMAIN m \cup {k} |-> IF x = k THEN v ELSE m[x]]

IsUserRecord(event) ==
    /\ event.event_type = "user"
    /\ IsSome(event.message)
    /\ event.message[1].role = "user"

IsAssistantRecord(event) ==
    /\ event.event_type = "assistant"
    /\ IsSome(event.message)
    /\ event.message[1].role = "assistant"

\* parser.rs:53-59
FirstTimestamp(cur, ts) == IF ts # EmptyString /\ cur = EmptyString THEN ts ELSE cur

LastTimestamp(cur, ts) == IF ts # EmptyString THEN ts ELSE cur

\* parser.rs:61-68
TurnDuration(event) ==
    IF event.subtype = Some("turn_duration") /\ IsSome(event.duration_ms)
    THEN event.duration_ms[1] ELSE 0

\* parser.rs:82-86: where an assistant record is stored.
StoreById(by_id, event, ts) ==
    IF IsSome(event.message[1].id)
    THEN MapInsert(by_id, event.message[1].id[1], <<event, ts>>)
    ELSE by_id

StoreNoId(no_id, event, ts) ==
    IF IsSome(event.message[1].id) THEN no_id ELSE Append(no_id, <<event, ts>>)

ScanLine ==
    /\ pc = "scan"
    /\ line_idx <= Len(raw)
    /\ line_idx' = line_idx + 1
    /\ LET parsed == ParseLine(raw[line_idx]) IN
       IF parsed = None \/ parsed[1].event_type \in SKIP_TYPES
       THEN UNCHANGED <<cwd, started_at, last_active, duration_ms,
                        user_events, assistant_by_id, assistant_no_id>>
       ELSE LET event == parsed[1]
                ts == UnwrapOr(event.timestamp, EmptyString)
            IN /\ cwd' = IF cwd = "" /\ IsSome(event.cwd) THEN event.cwd[1] ELSE cwd
               /\ started_at' = FirstTimestamp(started_at, ts)
               /\ last_active' = LastTimestamp(last_active, ts)
               /\ IF event.event_type = "system"
                  THEN /\ duration_ms' = duration_ms + TurnDuration(event)
                       /\ UNCHANGED <<user_events, assistant_by_id, assistant_no_id>>
                  ELSE IF IsUserRecord(event)
                  THEN /\ user_events' = Append(user_events, <<event, ts>>)
                       /\ UNCHANGED <<duration_ms, assistant_by_id, assistant_no_id>>
                  ELSE IF IsAssistantRecord(event)
                  THEN /\ assistant_by_id' = StoreById(assistant_by_id, event, ts)
                       /\ assistant_no_id' = StoreNoId(assistant_no_id, event, ts)
                       /\ UNCHANGED <<duration_ms, user_events>>
                  ELSE UNCHANGED <<duration_ms, user_events, assistant_by_id,
                                   assistant_no_id>>
    /\ UNCHANGED <<pc, raw, all_events, ev_idx, messages, tokens, model, result,
                   first_result>>
    /\ UNCHANGED contrib_vars
    /\ UNCHANGED cursor_vars
    /\ UNCHANGED pipeline_vars

-----------------------------------------------------------------------------
(* parse_session_file: collect, merge and sort (parser.rs:105-119).        *)

\* assistant_by_id.into_values().chain(assistant_no_id), the map iterated in `order`.
AllAssistant(by_id, order, no_id) ==
    [i \in 1..Len(order) |-> by_id[order[i]]] \o no_id

Tagged(kind, pair) == [kind |-> kind, event |-> pair[1], ts |-> pair[2]]

\* parser.rs:112-118: the user events, then the assistant events.
MergeEvents(users, assistants) ==
    [i \in 1..Len(users) |-> Tagged("user", users[i])]
        \o [i \in 1..Len(assistants) |-> Tagged("assistant", assistants[i])]

\* Insertion that keeps e behind the elements that do not compare greater.
RECURSIVE InsertByTs(_, _)
InsertByTs(sorted, e) ==
    IF sorted = <<>> THEN <<e>>
    ELSE IF StrLt(e.ts, Head(sorted).ts) THEN <<e>> \o sorted
    ELSE <<Head(sorted)>> \o InsertByTs(Tail(sorted), e)

RECURSIVE SortFrom(_, _)
SortFrom(sorted, rest) ==
    IF rest = <<>> THEN sorted
    ELSE SortFrom(InsertByTs(sorted, Head(rest)), Tail(rest))

\* Faulty variant of SortByTs: the merged events are left as merged.
SortByTsOmitted(events) == events

\* all_events.sort_by(|a, b| a.ts.cmp(&b.ts)): slice::sort_by is stable, and a
\* stable sort has one result.
SortByTs(events) == SortFrom(<<>>, events)

MergeAndSort ==
    /\ pc = "scan"
    /\ line_idx > Len(raw)
    /\ \E order \in Orderings(DOMAIN assistant_by_id) :
          all_events' = SortByTs(MergeEvents(user_events,
                            AllAssistant(assistant_by_id, order, assistant_no_id)))
    /\ ev_idx' = 1
    /\ pc' = "fold"
    /\ UNCHANGED <<raw, line_idx, user_events, assistant_by_id, assistant_no_id,
                   cwd, duration_ms, started_at, last_active, messages, tokens,
                   model, result, first_result>>
    /\ UNCHANGED contrib_vars
    /\ UNCHANGED cursor_vars
    /\ UNCHANGED pipeline_vars

-----------------------------------------------------------------------------
(* parse_session_file, second loop: one event (parser.rs:121-252).         *)

ConversationMessage(role, ts, uuid, usage) ==
    [role |-> role, timestamp |-> ts, uuid |-> uuid, usage |-> usage]

\* Faulty variant of AddUsage: the input total is a running maximum, as for Cursor.
AddUsageInputMax(t, usage) ==
    IF usage = None THEN t
    ELSE [input |-> IF UnwrapOr(usage[1].input_tokens, 0) > t.input
                    THEN UnwrapOr(usage[1].input_tokens, 0) ELSE t.input,
          output |-> t.output + UnwrapOr(usage[1].output_tokens, 0),
          cache_read |-> t.cache_read + UnwrapOr(usage[1].cache_read_input_tokens, 0),
          cache_creation |->
              t.cache_creation + UnwrapOr(usage[1].cache_creation_input_tokens, 0)]

\* parser.rs:178-183
AddUsage(t, usage) ==
    IF usage = None THEN t
    ELSE [input |-> t.input + UnwrapOr(usage[1].input_tokens, 0),
          output |-> t.output + UnwrapOr(usage[1].output_tokens, 0),
          cache_read |-> t.cache_read + UnwrapOr(usage[1].cache_read_input_tokens, 0),
          cache_creation |->
              t.cache_creation + UnwrapOr(usage[1].cache_creation_input_tokens, 0)]

\* A content block: type, the name of a tool_use, and its input object.
ContentBlock(type, name, input) == [type |-> type, name |-> name, input |-> input]

\* The input object of a Write or Edit: each key is None when absent or not a string.
ToolInput(file_path, content, old_string, new_string) ==
    [file_path |-> file_path, content |-> content, old_string |-> old_string,
     new_string |-> new_string]

\* str::lines().count() of a sequence of one-character strings: lines end at
\* "\n", and what follows the last "\n" is a line when it is not empty.
RECURSIVE LinesFrom(_, _)
LinesFrom(s, in_line) ==
    IF s = <<>> THEN (IF in_line THEN 1 ELSE 0)
    ELSE IF s[1] = "\n" THEN 1 + LinesFrom(Tail(s), FALSE)
    ELSE LinesFrom(Tail(s), TRUE)

lines_count(s) == LinesFrom(s, FALSE)

FileContribution(added, removed) == [added |-> added, removed |-> removed]

\* *map.entry(key).or_insert(0) += n
MapAdd(m, key, n) ==
    [x \in DOMAIN m \cup {key} |->
        (IF x \in DOMAIN m THEN m[x] ELSE 0) + (IF x = key THEN n ELSE 0)]

\* Faulty variant of AddContribution: the lines are added to every path.
AddContributionToAll(m, fp, added, removed) ==
    [x \in DOMAIN m \cup {fp} |->
        LET fc == IF x \in DOMAIN m THEN m[x] ELSE FileContribution(0, 0)
        IN  FileContribution(fc.added + added, fc.removed + removed)]

\* file_contributions.entry(fp).or_insert(FileContribution {0, 0}), then += on its fields
AddContribution(m, fp, added, removed) ==
    [x \in DOMAIN m \cup {fp} |->
        LET fc == IF x \in DOMAIN m THEN m[x] ELSE FileContribution(0, 0)
        IN  IF x = fp THEN FileContribution(fc.added + added, fc.removed + removed)
            ELSE fc]

Contribution(tu, la, lr, fc) ==
    [tool_usage |-> tu, lines_added |-> la, lines_removed |-> lr,
     file_contributions |-> fc]

\* Faulty variant of EditLines: the two strings are exchanged.
EditLinesExchanged(input) ==
    LET old_str == UnwrapOr(input.new_string, <<>>)
        new_str == UnwrapOr(input.old_string, <<>>)
    IN  [old_lines |-> IF old_str = <<>> THEN 0 ELSE lines_count(old_str),
         new_lines |-> IF new_str = <<>> THEN 0 ELSE lines_count(new_str)]

\* parser.rs:219-236
EditLines(input) ==
    LET old_str == UnwrapOr(input.old_string, <<>>)
        new_str == UnwrapOr(input.new_string, <<>>)
    IN  [old_lines |-> IF old_str = <<>> THEN 0 ELSE lines_count(old_str),
         new_lines |-> IF new_str = <<>> THEN 0 ELSE lines_count(new_str)]

\* parser.rs:196-215
ApplyWrite(acc, block) ==
    IF block.input = None \/ block.input[1].content = None THEN acc
    ELSE LET input == block.input[1]
             lines == lines_count(input.content[1])
         IN  [acc EXCEPT
                 !.lines_added = @ + lines,
                 !.file_contributions =
                     IF input.file_path = None THEN @
                     ELSE AddContribution(@, input.file_path[1], lines, 0)]

\* parser.rs:217-247
ApplyEdit(acc, block) ==
    IF block.input = None THEN acc
    ELSE LET input == block.input[1]
             n == EditLines(input)
         IN  [acc EXCEPT
                 !.lines_removed = @ + n.old_lines,
                 !.lines_added = @ + n.new_lines,
                 !.file_contributions =
                     IF input.file_path = None THEN @
                     ELSE AddContribution(@, input.file_path[1], n.new_lines, n.old_lines)]

\* parser.rs:187-248, one block
ApplyBlock(acc, block) ==
    IF block.type # "tool_use" \/ block.name = None THEN acc
    ELSE LET counted == [acc EXCEPT !.tool_usage = MapAdd(@, block.name[1], 1)]
             written == IF block.name[1] = "Write" THEN ApplyWrite(counted, block)
                        ELSE counted
         IN  IF block.name[1] = "Edit" THEN ApplyEdit(written, block) ELSE written

\* parser.rs:186-249
RECURSIVE FoldBlocks(_, _)
FoldBlocks(acc, blocks) ==
    IF blocks = <<>> THEN acc
    ELSE FoldBlocks(ApplyBlock(acc, blocks[1]), Tail(blocks))

\* parser.rs:171-175
FirstModel(cur, msg) == IF cur = "" /\ IsSome(msg.model) THEN msg.model[1] ELSE cur

FoldEvent ==
    /\ pc = "fold"
    /\ ev_idx <= Len(all_events)
    /\ ev_idx' = ev_idx + 1
    /\ LET tagged == all_events[ev_idx] IN
       IF tagged.event.message = None
       THEN UNCHANGED <<messages, tokens, model, contrib_vars>>
       ELSE LET msg == tagged.event.message[1] IN
            IF tagged.kind = "user"
            THEN /\ messages' = Append(messages,
                        ConversationMessage("user", tagged.ts,
                            UnwrapOr(tagged.event.uuid, ""), None))
                 /\ UNCHANGED <<tokens, model, contrib_vars>>
            ELSE /\ messages' = Append(messages,
                        ConversationMessage("assistant", tagged.ts,
                            UnwrapOr(tagged.event.uuid, ""), msg.usage))
                 /\ model' = FirstModel(model, msg)
                 /\ tokens' = AddUsage(tokens, msg.usage)
                 /\ LET acc == FoldBlocks(Contribution(tool_usage, lines_added,
                                                       lines_removed, file_contributions),
                                          UnwrapOr(msg.content, <<>>))
                    IN  /\ tool_usage' = acc.tool_usage
                        /\ lines_added' = acc.lines_added
                        /\ lines_removed' = acc.lines_removed
                        /\ file_contributions' = acc.file_contributions
    /\ UNCHANGED <<pc, raw, line_idx, user_events, assistant_by_id, assistant_no_id,
                   all_events, cwd, duration_ms, started_at, last_active, result,
                   first_result>>
    /\ UNCHANGED cursor_vars
    /\ UNCHANGED pipeline_vars

\* parser.rs:254-273 (the fields the model keeps)
ParsedSession(c, msgs, tok, dur, first, last, mdl, src) ==
    [cwd |-> c, messages |-> msgs, total_tokens |-> tok, duration_ms |-> dur,
     started_at |-> first, last_active |-> last, model |-> mdl, source |-> src]

ReturnSession ==
    /\ pc = "fold"
    /\ ev_idx > Len(all_events)
    /\ result' = Some(ParsedSession(cwd, messages, tokens, duration_ms, started_at,
                                    last_active, model, "claude")
                      @@ Contribution(tool_usage, lines_added, lines_removed,
                                      file_contributions))
    /\ pc' = "done"
    /\ UNCHANGED contrib_vars
    /\ UNCHANGED <<raw, line_idx, user_events, assistant_by_id, assistant_no_id,
                   all_events, ev_idx, cwd, duration_ms, started_at, last_active,
                   messages, tokens, model, first_result>>
    /\ UNCHANGED cursor_vars
    /\ UNCHANGED pipeline_vars

\* The locals of parse_session_file as the function starts (parser.rs:24-30, 93-103).
ParserStart ==
    /\ pc = "scan"
    /\ line_idx = 1
    /\ user_events = <<>>
    /\ assistant_by_id = <<>>
    /\ assistant_no_id = <<>>
    /\ all_events = <<>>
    /\ ev_idx = 1
    /\ cwd = ""
    /\ duration_ms = 0
    /\ started_at = EmptyString
    /\ last_active = EmptyString
    /\ messages = <<>>
    /\ tokens = TokenTotalsZero
    /\ model = ""
    /\ result = None
    /\ tool_usage = <<>>
    /\ lines_added = 0
    /\ lines_removed = 0
    /\ file_contributions = <<>>

\* parse_session_file called again on the same file: the first ParsedSession is
\* kept for comparison.
ParseAgain ==
    /\ pc = "done"
    /\ first_result = None
    /\ first_result' = result
    /\ pc' = "scan"
    /\ line_idx' = 1
    /\ user_events' = <<>>
    /\ assistant_by_id' = <<>>
    /\ assistant_no_id' = <<>>
    /\ all_events' = <<>>
    /\ ev_idx' = 1
    /\ cwd' = ""
    /\ duration_ms' = 0
    /\ started_at' = EmptyString
    /\ last_active' = EmptyString
    /\ messages' = <<>>
    /\ tokens' = TokenTotalsZero
    /\ model' = ""
    /\ result' = None
    /\ tool_usage' = <<>>
    /\ lines_added' = 0
    /\ lines_removed' = 0
    /\ file_contributions' = <<>>
    /\ UNCHANGED raw
    /\ UNCHANGED cursor_vars
    /\ UNCHANGED pipeline_vars

-----------------------------------------------------------------------------
(* The log files the JSON-lines specification reads.  A record's uuid is   *)
(* its line number, so that a message can be traced to its record.         *)

Timestamps == {None, Some(<<1>>), Some(<<2>>)}

MessageIds == {None, Some("m1"), Some("m2")}

Usages ==
    {None,
     Some(TokenUsage(Some(1), Some(2), Some(4), None)),
     Some(TokenUsage(Some(8), None, Some(16), Some(32)))}

\* The model name an assistant record carries.
ModelOf(id) == IF id = Some("m1") THEN Some("claude-opus-4")
               ELSE IF id = Some("m2") THEN Some("claude-haiku-3") ELSE None

\* Records that differ in type, timestamp and message id.
OrderShapes ==
    {RawEvent("user", None, None, None, ts, Some(RawMessage("user", None, None, None)),
              None) : ts \in Timestamps}
    \cup {RawEvent("assistant", None, None, None, ts,
                   Some(RawMessage("assistant", id, ModelOf(id), None)), None) :
              ts \in Timestamps, id \in MessageIds}

\* Records that differ in message id and usage.
TokenShapes ==
    {RawEvent("assistant", None, None, None, None,
              Some(RawMessage("assistant", id, None, u)), None) :
         id \in MessageIds, u \in Usages}
    \cup {RawEvent("user", None, Some("/Users/a/proj"), None, Some(<<1>>),
                   Some(RawMessage("user", None, None,
                                   Some(TokenUsage(Some(64), Some(64), Some(64), Some(64))))),
                   None),
          RawEvent("system", Some("turn_duration"), None, None, Some(<<2>>), None,
                   Some(7))}

ThreeLines == <<"x", "\n", "y", "\n", "z">>

FiveLines == <<"a", "\n", "b", "\n", "c", "\n", "d", "\n", "e", "\n">>

EditBlock(input) == ContentBlock("tool_use", Some("Edit"), input)

\* The content arrays of the assistant records that edit files.
EditContents ==
    {<<EditBlock(Some(ToolInput(Some("f1"), None, Some(ThreeLines), Some(FiveLines))))>>,
     <<EditBlock(Some(ToolInput(Some("f1"), None, Some(<<>>), None))),
       EditBlock(Some(ToolInput(None, None, Some(<<"x">>), Some(<<"\n", "\n">>))))>>,
     <<ContentBlock("tool_use", Some("Write"),
                    Some(ToolInput(Some("f1"), Some(<<"x", "\n", "y">>), None, None))),
       EditBlock(Some(ToolInput(Some("f2"), None, None, Some(<<"x">>))))>>,
     <<ContentBlock("text", None, None), EditBlock(None)>>}

\* Content arrays whose invocations name the empty path, or no path and no
\* line, or no path and one line.
PathContents ==
    {<<EditBlock(Some(ToolInput(Some(""), None, Some(<<"x">>), Some(ThreeLines))))>>,
     <<EditBlock(Some(ToolInput(None, None, None, Some(<<>>)))),
       ContentBlock("tool_use", Some("Write"),
                    Some(ToolInput(None, Some(<<>>), None, None)))>>,
     <<ContentBlock("tool_use", Some("Write"),
                    Some(ToolInput(None, Some(<<"x">>), None, None)))>>}

WithContent(event, blocks) ==
    [event EXCEPT !.message = Some([@[1] EXCEPT !.content = Some(blocks)])]

\* Assistant records that differ in message id and content.
EditShapes ==
    {WithContent(RawEvent("assistant", None, None, None, None,
                          Some(RawMessage("assistant", id, None, None)), None), blocks) :
         id \in {None, Some("m1")}, blocks \in EditContents}

\* Assistant records without message id that differ in the paths they name.
PathShapes ==
    {WithContent(RawEvent("assistant", None, None, None, None,
                          Some(RawMessage("assistant", None, None, None)), None), blocks) :
         blocks \in EditContents \cup PathContents}

WithUuid(event, n) == [event EXCEPT !.uuid = Some(n)]

\* raw is a file of n lines whose records are drawn from shapes.
IsFile(n, shapes) ==
    \E f \in [1..n -> shapes] : raw = [i \in 1..n |-> JsonLine(WithUuid(f[i], i))]

InitJsonl ==
    /\ \E n \in 1..MaxLines :
          IsFile(n, OrderShapes) \/ IsFile(n, TokenShapes) \/ IsFile(n, EditShapes)
    /\ ParserStart
    /\ first_result = None
    /\ db_rows = <<>>
    /\ bubbles = <<>>
    /\ bubble_idx = 1
    /\ composer_created_at = EmptyString
    /\ start_time = None
    /\ PipelineIdle

NextJsonl == ScanLine \/ MergeAndSort \/ FoldEvent \/ ReturnSession \/ ParseAgain

SpecJsonl == InitJsonl /\ [][NextJsonl]_vars

-----------------------------------------------------------------------------
(* Statements about parse_session_file, in terms of the file read.         *)

\* The record of line i, when the line holds one that is not skipped.
Accepted(i) ==
    /\ raw[i].kind = "json"
    /\ raw[i].event.event_type \notin SKIP_TYPES

UserLines == {i \in 1..Len(raw) : Accepted(i) /\ IsUserRecord(raw[i].event)}

AssistantLines == {i \in 1..Len(raw) : Accepted(i) /\ IsAssistantRecord(raw[i].event)}

IdOfLine(i) == raw[i].event.message[1].id

\* The assistant lines that are the last of their message id, and those without id.
SurvivingLines ==
    {i \in AssistantLines :
        \/ IdOfLine(i) = None
        \/ \A j \in AssistantLines : j > i => IdOfLine(j) # IdOfLine(i)}

MessageKeys(msgs) == {<<msgs[k].role, msgs[k].uuid>> : k \in 1..Len(msgs)}

RECURSIVE SumOver(_, _)
SumOver(S, f) ==
    IF S = {} THEN 0
    ELSE LET x == CHOOSE y \in S : TRUE IN f[x] + SumOver(S \ {x}, f)

UsageOfLine(i) == raw[i].event.message[1].usage

\* C1: the messages are exactly the user records, the assistant records without
\* id, and for each message id the last record that carries it, each once.
C1_DedupLastWriteWins ==
    pc = "done" =>
        /\ Len(messages) = Cardinality(UserLines) + Cardinality(SurvivingLines)
        /\ MessageKeys(messages) =
               {<<"user", i>> : i \in UserLines}
                   \cup {<<"assistant", i>> : i \in SurvivingLines}

\* C1 witness: a parsed file in which a message id is carried by two records,
\* beside an assistant record without id.
C1_Witness ==
    /\ pc = "done"
    /\ \E i, j \in AssistantLines : i < j /\ IdOfLine(i) # None /\ IdOfLine(i) = IdOfLine(j)
    /\ \E k \in AssistantLines : IdOfLine(k) = None
    /\ Len(messages) = 2

\* C2: the messages of the returned session are in ascending timestamp order.
C2_SortedByTimestamp ==
    pc = "done" =>
        \A k \in 1..(Len(messages) - 1) :
            StrLeq(messages[k].timestamp, messages[k + 1].timestamp)

\* C2 witness: a parsed file whose records are not in timestamp order, a user
\* record among them.
C2_Witness ==
    /\ pc = "done"
    /\ \E i \in AssistantLines, j \in UserLines :
          /\ i < j
          /\ StrLt(UnwrapOr(raw[j].event.timestamp, EmptyString),
                   UnwrapOr(raw[i].event.timestamp, EmptyString))
    /\ Len(messages) = Len(raw)

\* C3: messages with equal timestamps are in the order of their records in the file.
C3_TiesInFileOrder ==
    pc = "done" =>
        \A k, l \in 1..Len(messages) :
            (k < l /\ messages[k].timestamp = messages[l].timestamp)
                => messages[k].uuid < messages[l].uuid

\* C4: a second parse of the same content returns the same ParsedSession.
C4_SameResultTwice ==
    (pc = "done" /\ first_result # None) => result = first_result

\* C6: started_at <= last_active when both are non-empty.
C6_StartedBeforeLastActive ==
    (result # None /\ result[1].started_at # EmptyString
                   /\ result[1].last_active # EmptyString)
        => StrLeq(result[1].started_at, result[1].last_active)

InputOf(i) == IF UsageOfLine(i) = None THEN 0 ELSE UnwrapOr(UsageOfLine(i)[1].input_tokens, 0)

OutputOf(i) == IF UsageOfLine(i) = None THEN 0 ELSE UnwrapOr(UsageOfLine(i)[1].output_tokens, 0)

CacheReadOf(i) ==
    IF UsageOfLine(i) = None THEN 0
    ELSE UnwrapOr(UsageOfLine(i)[1].cache_read_input_tokens, 0)

CacheCreationOf(i) ==
    IF UsageOfLine(i) = None THEN 0
    ELSE UnwrapOr(UsageOfLine(i)[1].cache_creation_input_tokens, 0)

\* C8: each token total is the sum of that usage field over the assistant records
\* that survive deduplication.
C8_TokenSums ==
    pc = "done" =>
        /\ tokens.input = SumOver(SurvivingLines, [i \in SurvivingLines |-> InputOf(i)])
        /\ tokens.output = SumOver(SurvivingLines, [i \in SurvivingLines |-> OutputOf(i)])
        /\ tokens.cache_read = SumOver(SurvivingLines, [i \in SurvivingLines |-> CacheReadOf(i)])
        /\ tokens.cache_creation = SumOver(SurvivingLines, [i \in SurvivingLines |-> CacheCreationOf(i)])

\* C8 witness: a parsed file in which a message id is carried by two records with
\* different usage, beside a user record that carries usage.
C8_Witness ==
    /\ pc = "done"
    /\ \E i, j \in AssistantLines :
          /\ i < j
          /\ IdOfLine(i) # None
          /\ IdOfLine(i) = IdOfLine(j)
          /\ UsageOfLine(i) # None
          /\ UsageOfLine(j) # None
          /\ UsageOfLine(i) # UsageOfLine(j)
    /\ \E u \in UserLines : UsageOfLine(u) # None
    /\ tokens.input > 0

-----------------------------------------------------------------------------
(* Epoch milliseconds (f64 in the program) and RFC 3339 strings.           *)

Limb == 10^6

\* The quantity hi * 10^6 + lo, 0 <= lo < 10^6.
Ms(hi, lo) == [hi |-> hi + (lo \div Limb), lo |-> lo % Limb]

MsZero == Ms(0, 0)

MsLt(a, b) == a.hi < b.hi \/ (a.hi = b.hi /\ a.lo < b.lo)

MsLeq(a, b) == ~MsLt(b, a)

MsAdd(a, b) == Ms(a.hi + b.hi, a.lo + b.lo)

MsSub(a, b) == Ms(a.hi - b.hi, a.lo - b.lo)

\* Days since 1970-01-01 to <<year, month, day>> (proleptic Gregorian), as
\* chrono's DateTime does for a timestamp.
CivilFromDays(days) ==
    LET z == days + 719468
        era == z \div 146097
        doe == z % 146097
        yoe == (doe - (doe \div 1460) + (doe \div 36524) - (doe \div 146096)) \div 365
        doy == doe - (365 * yoe + (yoe \div 4) - (yoe \div 100))
        mp == (5 * doy + 2) \div 153
        d == doy - ((153 * mp + 2) \div 5) + 1
        m == IF mp < 10 THEN mp + 3 ELSE mp - 9
        y == yoe + era * 400 + (IF m <= 2 THEN 1 ELSE 0)
    IN <<y, m, d>>

DaysFromCivil(y, m, d) ==
    LET yy == IF m <= 2 THEN y - 1 ELSE y
        era == yy \div 400
        yoe == yy % 400
        doy == ((153 * (IF m > 2 THEN m - 3 ELSE m + 9) + 2) \div 5) + d - 1
        doe == yoe * 365 + (yoe \div 4) - (yoe \div 100) + doy
    IN era * 146097 + doe - 719468

\* ms_to_iso: DateTime::from_timestamp_millis(ms).to_rfc3339(), in UTC.  The
\* string "YYYY-MM-DDTHH:MM:SS[.mmm]+00:00" is the sequence of its zero-padded
\* fields <<YYYY, MM, DD, HH, MM, SS>>, followed by mmm when it is not 0: two
\* such strings compare as their bytes do ('+' sorts before '.').
ms_to_iso(ms) ==
    LET t5 == ms.hi * 10 + (ms.lo \div 100000)
        days == t5 \div 864
        ms_of_day == (t5 % 864) * 100000 + (ms.lo % 100000)
        secs == ms_of_day \div 1000
        millis == ms_of_day % 1000
    IN CivilFromDays(days)
           \o <<secs \div 3600, (secs \div 60) % 60, secs % 60>>
           \o (IF millis = 0 THEN <<>> ELSE <<millis>>)

\* DateTime::parse_from_rfc3339(s).timestamp_millis()
iso_to_ms(s) ==
    LET days == DaysFromCivil(s[1], s[2], s[3])
        ms_of_day == ((s[4] * 60 + s[5]) * 60 + s[6]) * 1000
                         + (IF Len(s) > 6 THEN s[7] ELSE 0)
        t5 == days * 864 + (ms_of_day \div 100000)
    IN Ms(t5 \div 10, (t5 % 10) * 100000 + (ms_of_day % 100000))

-----------------------------------------------------------------------------
(* cursor_parser.rs: bubbles.                                              *)

BUBBLE_USER == 1

BUBBLE_ASSISTANT == 2

BubbleTokenCount(i, o) == [input_tokens |-> i, output_tokens |-> o]

BubbleTiming(s, e, settle) ==
    [client_start_time |-> s, client_end_time |-> e, client_settle_time |-> settle]

CodeBlockUri(fs_path, path) == [fs_path |-> fs_path, path |-> path]

CursorCodeBlock(content, uri) == [content |-> content, uri |-> uri]

CursorBubble(type, tc, timing, id) ==
    [bubble_type |-> type, token_count |-> tc, timing_info |-> timing, bubble_id |-> id,
     code_blocks |-> None]

\* timing_info.as_ref().and_then(|t| t.client_start_time)
RawStart(bubble) ==
    IF bubble.timing_info = None THEN None ELSE bubble.timing_info[1].client_start_time

\* timing_info.as_ref().and_then(|t| t.client_end_time.or(t.client_settle_time))
RawEnd(bubble) ==
    IF bubble.timing_info = None THEN None
    ELSE IF IsSome(bubble.timing_info[1].client_end_time)
    THEN bubble.timing_info[1].client_end_time
    ELSE bubble.timing_info[1].client_settle_time

\* The sort key of load_bubbles_from_global: the raw start time, 0.0 when missing.
SortKey(bubble) == UnwrapOr(RawStart(bubble), MsZero)

RECURSIVE InsertByStart(_, _)
InsertByStart(sorted, b) ==
    IF sorted = <<>> THEN <<b>>
    ELSE IF MsLt(SortKey(b), SortKey(Head(sorted))) THEN <<b>> \o sorted
    ELSE <<Head(sorted)>> \o InsertByStart(Tail(sorted), b)

RECURSIVE SortBubblesFrom(_, _)
SortBubblesFrom(sorted, rest) ==
    IF rest = <<>> THEN sorted
    ELSE SortBubblesFrom(InsertByStart(sorted, Head(rest)), Tail(rest))

\* bubbles.sort_by(...) (stable)
SortByTiming(rows) == SortBubblesFrom(<<>>, rows)

\* 1_000_000_000_000.0
ABSOLUTE_EPOCH_MS == Ms(1000000, 0)

\* Faulty variant of resolve_timestamp: 1e12 itself is taken as an absolute epoch.
resolve_timestamp_inclusive(raw_ts, base_epoch_ms) ==
    IF raw_ts = None THEN None
    ELSE LET val == raw_ts[1] IN
         IF MsLeq(val, MsZero) THEN None
         ELSE IF MsLeq(ABSOLUTE_EPOCH_MS, val) THEN Some(val)
         ELSE IF MsLt(MsZero, base_epoch_ms) THEN Some(MsAdd(base_epoch_ms, val))
         ELSE None

resolve_timestamp(raw_ts, base_epoch_ms) ==
    IF raw_ts = None THEN None
    ELSE LET val == raw_ts[1] IN
         IF MsLeq(val, MsZero) THEN None
         ELSE IF MsLt(ABSOLUTE_EPOCH_MS, val) THEN Some(val)
         ELSE IF MsLt(MsZero, base_epoch_ms) THEN Some(MsAdd(base_epoch_ms, val))
         ELSE None

\* cursor_parser.rs:247-253
BaseEpochMs(created_at) ==
    IF created_at # EmptyString THEN iso_to_ms(created_at) ELSE MsZero

\* Faulty variant of TimestampOf: no fallback to the creation time.
TimestampOfNoFallback(start, created_at) ==
    IF IsSome(start) THEN ms_to_iso(start[1]) ELSE EmptyString

\* cursor_parser.rs:268-270
TimestampOf(start, created_at) ==
    IF IsSome(start) THEN ms_to_iso(start[1]) ELSE created_at

\* u64::max
Max(a, b) == IF a >= b THEN a ELSE b

\* Faulty variant of MaxInput: the input tokens are summed, as for the JSON-lines source.
MaxInputSummed(t, tc) ==
    IF IsSome(tc) /\ IsSome(tc[1].input_tokens)
    THEN [t EXCEPT !.input = t.input + tc[1].input_tokens[1]] ELSE t

\* cursor_parser.rs:296-300 and 318-320
MaxInput(t, tc) ==
    IF IsSome(tc) /\ IsSome(tc[1].input_tokens)
    THEN [t EXCEPT !.input = Max(t.input, tc[1].input_tokens[1])] ELSE t

\* cursor_parser.rs:314-317
SumOutput(t, tc) ==
    IF IsSome(tc) /\ IsSome(tc[1].output_tokens)
    THEN [t EXCEPT !.output = t.output + tc[1].output_tokens[1]] ELSE t

\* cursor_parser.rs:324-326
BubbleDuration(start, end) ==
    IF IsSome(start) /\ IsSome(end) THEN MsSub(end[1], start[1]) ELSE MsZero

\* bubble_id, or "cursor-{session_id}-{messages.len()}"
BubbleUuid(bubble, msgs) == UnwrapOr(bubble.bubble_id, <<"cursor", Len(msgs)>>)

\* cursor_parser.rs:11-24
normalize_tool(name) ==
    CASE name = "edit_file" -> "Edit"
      [] name = "create_file" -> "Write"
      [] name = "run_terminal_command" -> "Bash"
      [] name = "read_file" -> "Read"
      [] name = "list_directory" -> "Glob"
      [] name = "file_search" -> "Glob"
      [] name = "search_files" -> "Grep"
      [] name = "codebase_search" -> "Grep"
      [] name = "grep_search" -> "Grep"
      [] OTHER -> name

\* cb.uri.as_ref().and_then(|u| u.fs_path.as_deref().or(u.path.as_deref())).unwrap_or("")
BlockPath(cb) ==
    IF cb.uri = None THEN ""
    ELSE IF IsSome(cb.uri[1].fs_path) THEN cb.uri[1].fs_path[1]
    ELSE UnwrapOr(cb.uri[1].path, "")

\* Faulty variant of ApplyCodeBlock: a block without file path counts as an
\* edit too.
ApplyCodeBlockAnyPath(acc, cb) ==
    IF cb.content = None THEN acc
    ELSE LET lines == lines_count(cb.content[1])
             fp == BlockPath(cb)
         IN  [acc EXCEPT
                 !.lines_added = @ + lines,
                 !.file_contributions = IF fp = "" THEN @
                                        ELSE AddContribution(@, fp, lines, 0),
                 !.tool_usage = MapAdd(@, normalize_tool("edit_file"), 1)]

\* cursor_parser.rs:330-352, one code block
ApplyCodeBlock(acc, cb) ==
    IF cb.content = None THEN acc
    ELSE LET lines == lines_count(cb.content[1])
             fp == BlockPath(cb)
         IN  [acc EXCEPT
                 !.lines_added = @ + lines,
                 !.file_contributions = IF fp = "" THEN @
                                        ELSE AddContribution(@, fp, lines, 0),
                 !.tool_usage = IF fp = "" THEN @
                                ELSE MapAdd(@, normalize_tool("edit_file"), 1)]

\* cursor_parser.rs:329-354
RECURSIVE FoldCodeBlocks(_, _)
FoldCodeBlocks(acc, code_blocks) ==
    IF code_blocks = <<>> THEN acc
    ELSE FoldCodeBlocks(ApplyCodeBlock(acc, code_blocks[1]), Tail(code_blocks))

LoadBubbles ==
    /\ pc = "load"
    /\ bubbles' = SortByTiming(db_rows)
    /\ bubble_idx' = 1
    /\ pc' = "bubbles"
    /\ UNCHANGED <<db_rows, composer_created_at, start_time, duration_ms, started_at,
                   last_active, messages, tokens, result>>
    /\ UNCHANGED jsonl_vars
    /\ UNCHANGED pipeline_vars

BuildBubble ==
    /\ pc = "bubbles"
    /\ bubble_idx <= Len(bubbles)
    /\ bubble_idx' = bubble_idx + 1
    /\ LET bubble == bubbles[bubble_idx]
           base_epoch_ms == BaseEpochMs(composer_created_at)
           start == resolve_timestamp(RawStart(bubble), base_epoch_ms)
           end == resolve_timestamp(RawEnd(bubble), base_epoch_ms)
           ts == TimestampOf(start, composer_created_at)
           bubble_type == UnwrapOr(bubble.bubble_type, 0)
       IN /\ start_time' = start
          /\ started_at' = FirstTimestamp(started_at, ts)
          /\ last_active' = LastTimestamp(last_active, ts)
          /\ IF bubble_type = BUBBLE_USER
             THEN /\ tokens' = MaxInput(tokens, bubble.token_count)
                  /\ messages' = Append(messages,
                         ConversationMessage("user", ts, BubbleUuid(bubble, messages), None))
                  /\ UNCHANGED duration_ms
                  /\ UNCHANGED contrib_vars
             ELSE IF bubble_type = BUBBLE_ASSISTANT
             THEN /\ tokens' = MaxInput(SumOutput(tokens, bubble.token_count),
                                        bubble.token_count)
                  /\ duration_ms' = MsAdd(duration_ms, BubbleDuration(start, end))
                  /\ messages' = Append(messages,
                         ConversationMessage("assistant", ts, BubbleUuid(bubble, messages),
                                             None))
                  /\ LET counted ==
                            FoldCodeBlocks(Contribution(tool_usage, lines_added,
                                                        lines_removed, file_contributions),
                                           UnwrapOr(bubble.code_blocks, <<>>))
                     IN  /\ tool_usage' = counted.tool_usage
                         /\ lines_added' = counted.lines_added
                         /\ lines_removed' = counted.lines_removed
                         /\ file_contributions' = counted.file_contributions
             ELSE /\ UNCHANGED <<tokens, duration_ms, messages>>
                  /\ UNCHANGED contrib_vars
    /\ UNCHANGED <<pc, db_rows, bubbles, composer_created_at, result>>
    /\ UNCHANGED <<raw, line_idx, user_events, assistant_by_id, assistant_no_id,
                   all_events, ev_idx, cwd, model, first_result>>
    /\ UNCHANGED pipeline_vars

\* cursor_parser.rs:388-397
OrCreatedAt(s, created_at) == IF s = EmptyString THEN created_at ELSE s

ReturnCursorSession ==
    /\ pc = "bubbles"
    /\ bubble_idx > Len(bubbles)
    /\ result' = Some(ParsedSession("", messages, tokens, duration_ms,
                                    OrCreatedAt(started_at, composer_created_at),
                                    OrCreatedAt(last_active, composer_created_at),
                                    "", "cursor")
                          @@ Contribution(tool_usage, lines_added, lines_removed,
                                          file_contributions))
    /\ pc' = "done"
    /\ UNCHANGED <<db_rows, bubbles, bubble_idx, composer_created_at, start_time,
                   duration_ms, started_at, last_active, messages, tokens>>
    /\ UNCHANGED jsonl_vars
    /\ UNCHANGED pipeline_vars

-----------------------------------------------------------------------------
(* The sessions the Cursor specification reads.  A bubble's id is its row  *)
(* number in the query result, so that a message can be traced to it.      *)

\* Creation time strings as get_composer_created_at returns them: empty, or the
\* RFC 3339 form of an epoch above 1e12 ms.
CreatedAts == {EmptyString, ms_to_iso(Ms(1700000, 0))}

\* Raw clientStartTime values: negative, 0, an offset, the largest offset, an
\* absolute epoch.
StartTimes == {Ms(0, -1), Ms(0, 0), Ms(0, 5000), Ms(1000000, 0), Ms(1700000, 0)}

Timings == {None} \cup {Some(BubbleTiming(Some(t), None, None)) : t \in StartTimes}

\* Bubbles that differ in type and timing.
TimingBubbles ==
    {CursorBubble(Some(type), None, tm, None) :
         type \in {BUBBLE_USER, BUBBLE_ASSISTANT}, tm \in Timings}
    \cup {CursorBubble(None, None, Some(BubbleTiming(Some(Ms(0, 9000)), None, None)), None)}

TokenCounts ==
    {None,
     Some(BubbleTokenCount(Some(100), Some(10))),
     Some(BubbleTokenCount(Some(250), Some(20))),
     Some(BubbleTokenCount(Some(180), Some(30))),
     Some(BubbleTokenCount(Some(300), None))}

\* Bubbles that differ in type and token count.
TokenBubbles ==
    {CursorBubble(Some(type), tc, None, None) :
         type \in {BUBBLE_USER, BUBBLE_ASSISTANT}, tc \in TokenCounts}
    \cup {CursorBubble(None, Some(BubbleTokenCount(Some(999), Some(999))), None, None)}

\* Timings with an end: an offset after the start offset; an absolute start
\* with an offset as end; a settle time, absolute, after a start offset; an
\* end without start.
EndTimings ==
    {BubbleTiming(Some(Ms(0, 5000)), Some(Ms(0, 9000)), None),
     BubbleTiming(Some(Ms(1700000, 10000)), Some(Ms(0, 5000)), Some(Ms(0, 1))),
     BubbleTiming(Some(Ms(0, 5000)), None, Some(Ms(1700000, 20000))),
     BubbleTiming(None, Some(Ms(0, 9000)), None)}

\* Bubbles that differ in type and in the end of their timing.
EndBubbles ==
    {CursorBubble(Some(type), None, Some(tm), None) :
         type \in {BUBBLE_USER, BUBBLE_ASSISTANT}, tm \in EndTimings}

WithCodeBlocks(bubble, code_blocks) == [bubble EXCEPT !.code_blocks = Some(code_blocks)]

\* The codeBlocks arrays: a block of three lines for f1; a block of five lines
\* for the path f2 and a block without uri; a block without content and one
\* whose _fsPath is the empty string; an empty block without path; an empty
\* block for f1.
CodeBlockArrays ==
    {<<CursorCodeBlock(Some(ThreeLines), Some(CodeBlockUri(Some("f1"), None)))>>,
     <<CursorCodeBlock(Some(FiveLines), Some(CodeBlockUri(None, Some("f2")))),
       CursorCodeBlock(Some(<<"x">>), None)>>,
     <<CursorCodeBlock(None, Some(CodeBlockUri(Some("f1"), None))),
       CursorCodeBlock(Some(<<"x">>), Some(CodeBlockUri(Some(""), Some("f2"))))>>,
     <<CursorCodeBlock(Some(<<>>), Some(CodeBlockUri(None, None)))>>,
     <<CursorCodeBlock(Some(<<>>), Some(CodeBlockUri(Some("f1"), None)))>>}

\* Bubbles that differ in their code blocks.
CodeBubbles ==
    {CursorBubble(Some(BUBBLE_ASSISTANT), None, None, None),
     WithCodeBlocks(CursorBubble(Some(BUBBLE_USER), None, None, None),
                    <<CursorCodeBlock(Some(ThreeLines),
                                      Some(CodeBlockUri(Some("f1"), None)))>>)}
    \cup {WithCodeBlocks(CursorBubble(Some(BUBBLE_ASSISTANT), None, None, None), cbs) :
             cbs \in CodeBlockArrays}

WithBubbleId(bubble, n) == [bubble EXCEPT !.bubble_id = Some(n)]

\* db_rows holds n bubbles drawn from shapes.
IsRows(n, shapes) ==
    \E f \in [1..n -> shapes] : db_rows = [i \in 1..n |-> WithBubbleId(f[i], i)]

InitCursor ==
    /\ \E n \in 1..MaxBubbles :
          \/ IsRows(n, TimingBubbles) /\ composer_created_at \in CreatedAts
          \/ IsRows(n, TokenBubbles) /\ composer_created_at = EmptyString
          \/ IsRows(n, CodeBubbles) /\ composer_created_at = EmptyString
          \/ IsRows(n, EndBubbles) /\ composer_created_at \in CreatedAts
    /\ pc = "load"
    /\ bubbles = <<>>
    /\ bubble_idx = 1
    /\ start_time = None
    /\ duration_ms = MsZero
    /\ started_at = EmptyString
    /\ last_active = EmptyString
    /\ messages = <<>>
    /\ tokens = TokenTotalsZero
    /\ result = None
    /\ raw = <<>>
    /\ line_idx = 1
    /\ user_events = <<>>
    /\ assistant_by_id = <<>>
    /\ assistant_no_id = <<>>
    /\ all_events = <<>>
    /\ ev_idx = 1
    /\ cwd = ""
    /\ model = ""
    /\ first_result = None
    /\ tool_usage = <<>>
    /\ lines_added = 0
    /\ lines_removed = 0
    /\ file_contributions = <<>>
    /\ PipelineIdle

NextCursor == LoadBubbles \/ BuildBubble \/ ReturnCursorSession

SpecCursor == InitCursor /\ [][NextCursor]_vars

-----------------------------------------------------------------------------
(* Statements about build_parsed_session, in terms of the bubbles read.    *)

\* C5: the messages of a Cursor session are in ascending timestamp order.
C5_CursorSortedByTimestamp ==
    (pc = "done" /\ result[1].source = "cursor") =>
        \A k \in 1..(Len(messages) - 1) :
            StrLeq(messages[k].timestamp, messages[k + 1].timestamp)

\* The rows of each bubble type.
RowsOfType(type) == {i \in 1..Len(db_rows) : db_rows[i].bubble_type = Some(type)}

ReportedInput(i) ==
    IF db_rows[i].token_count = None THEN 0
    ELSE UnwrapOr(db_rows[i].token_count[1].input_tokens, 0)

ReportedOutput(i) ==
    IF db_rows[i].token_count = None THEN 0
    ELSE UnwrapOr(db_rows[i].token_count[1].output_tokens, 0)

RECURSIVE MaxOver(_, _)
MaxOver(S, f) ==
    IF S = {} THEN 0
    ELSE LET x == CHOOSE y \in S : TRUE
             rest == MaxOver(S \ {x}, f)
         IN IF f[x] >= rest THEN f[x] ELSE rest

\* C7 as claimed: input is the maximum inputTokens of the assistant bubbles and
\* output the sum of their outputTokens, whatever the user bubbles report.
C7_InputMaxOfAssistant ==
    (pc = "done" /\ result[1].source = "cursor") =>
        /\ tokens.input = MaxOver(RowsOfType(BUBBLE_ASSISTANT),
                                  [i \in 1..Len(db_rows) |-> ReportedInput(i)])
        /\ tokens.output = SumOver(RowsOfType(BUBBLE_ASSISTANT),
                                   [i \in 1..Len(db_rows) |-> ReportedOutput(i)])

\* C7 as amended: input is the maximum inputTokens over the user and the assistant
\* bubbles, output the sum of outputTokens over the assistant bubbles.
C7_InputMaxOfUserAndAssistant ==
    (pc = "done" /\ result[1].source = "cursor") =>
        /\ tokens.input = MaxOver(RowsOfType(BUBBLE_USER) \cup RowsOfType(BUBBLE_ASSISTANT),
                                  [i \in 1..Len(db_rows) |-> ReportedInput(i)])
        /\ tokens.output = SumOver(RowsOfType(BUBBLE_ASSISTANT),
                                   [i \in 1..Len(db_rows) |-> ReportedOutput(i)])

\* C7 witness: assistant bubbles reporting inputTokens 100, 250, 180 and
\* outputTokens 10, 20, 30 give input 250 and output 60.
C7_Witness ==
    /\ pc = "done"
    /\ Len(db_rows) = 3
    /\ RowsOfType(BUBBLE_ASSISTANT) = {1, 2, 3}
    /\ <<ReportedInput(1), ReportedInput(2), ReportedInput(3)>> = <<100, 250, 180>>
    /\ <<ReportedOutput(1), ReportedOutput(2), ReportedOutput(3)>> = <<10, 20, 30>>
    /\ tokens.input = 250
    /\ tokens.output = 60

\* The bubble the loop of build_parsed_session handled last.
LastBubble == bubbles[bubble_idx - 1]

HasBase == composer_created_at # EmptyString

\* C9: resolve_timestamp gives nothing for an absent or non-positive value, the
\* value itself above 1e12, and otherwise base + value when there is a base and
\* nothing when there is none.
C9_ResolveTimestamp ==
    (pc \in {"bubbles", "done"} /\ bubble_idx > 1) =>
        LET r == RawStart(LastBubble)
            positive == r # None /\ MsLt(Ms(0, 0), r[1])
            absolute == r # None /\ MsLt(Ms(1000000, 0), r[1])
        IN /\ ~positive => start_time = None
           /\ absolute => start_time = r
           /\ (positive /\ ~absolute /\ HasBase) =>
                  start_time = Some(MsAdd(iso_to_ms(composer_created_at), r[1]))
           /\ (positive /\ ~absolute /\ ~HasBase) => start_time = None
           /\ r = Some(Ms(1700000, 0)) => start_time = Some(Ms(1700000, 0))
           /\ (r = Some(Ms(0, 5000)) /\ composer_created_at = <<2023, 11, 14, 22, 13, 20>>)
                  => start_time = Some(Ms(1700000, 5000))
           /\ r = Some(Ms(0, 0)) => start_time = None

\* C9 witness: the offset 5000 resolved against the base 1_700_000_000_000.
C9_Witness ==
    /\ pc = "bubbles"
    /\ bubble_idx > 1
    /\ RawStart(LastBubble) = Some(Ms(0, 5000))
    /\ composer_created_at = <<2023, 11, 14, 22, 13, 20>>
    /\ start_time = Some(Ms(1700000, 5000))

\* Whether the start time of a bubble resolves.
Resolvable(bubble) ==
    LET r == RawStart(bubble) IN
        /\ r # None
        /\ MsLt(Ms(0, 0), r[1])
        /\ (MsLt(Ms(1000000, 0), r[1]) \/ HasBase)

IsMessageBubble(bubble) ==
    bubble.bubble_type \in {Some(BUBBLE_USER), Some(BUBBLE_ASSISTANT)}

SeenBubbles == {i \in 1..Len(bubbles) : i < bubble_idx}

\* C10: a message of a bubble whose start time is unresolvable carries the creation
\* time string (empty when unknown); every user and assistant bubble has its
\* message; started_at and last_active are empty only while no bubble seen has
\* a non-empty timestamp.
C10_TimestampFallback ==
    pc \in {"bubbles", "done"} =>
        /\ Len(messages) = Cardinality({i \in SeenBubbles : IsMessageBubble(bubbles[i])})
        /\ \A i \in SeenBubbles :
              IsMessageBubble(bubbles[i]) =>
                  \E k \in 1..Len(messages) :
                      /\ messages[k].uuid = bubbles[i].bubble_id[1]
                      /\ ~Resolvable(bubbles[i]) =>
                             messages[k].timestamp = composer_created_at
        /\ (started_at = EmptyString) =
               (\A i \in SeenBubbles : ~Resolvable(bubbles[i]) /\ ~HasBase)
        /\ (last_active = EmptyString) = (started_at = EmptyString)

\* C10 witness: a session with a creation time in which a bubble without start
\* time and a bubble with start time 0 both have their message.
C10_Witness ==
    /\ pc = "done"
    /\ HasBase
    /\ Len(messages) = Len(bubbles)
    /\ \E i, j \in 1..Len(bubbles) :
          /\ RawStart(bubbles[i]) = None
          /\ RawStart(bubbles[j]) = Some(Ms(0, 0))
          /\ messages[i].timestamp = composer_created_at
          /\ messages[j].timestamp = composer_created_at
    /\ result[1].started_at = composer_created_at

-----------------------------------------------------------------------------
(* scanner.rs: resolve_claude_project_dir and scan_all_projects.           *)
(*                                                                         *)
(* A path is a sequence of one-character strings.                          *)

\* Largest number of containers either scan returns.
MaxProjects == 2

CLAUDE == "claude"

CURSOR == "cursor"

EmptyPath == <<>>

SessionFile(id, source) == [id |-> id, source |-> source]

ScannedProject(id, dir, source, sources, session_files) ==
    [id |-> id, dir |-> dir, source |-> source, sources |-> sources,
     session_files |-> session_files]

\* path.trim_end_matches('/')
RECURSIVE normalize_path(_)
normalize_path(path) ==
    IF path # <<>> /\ path[Len(path)] = "/"
    THEN normalize_path(SubSeq(path, 1, Len(path) - 1))
    ELSE path

\* The paths that exist on disk when decode_project_id looks.
ExistingPaths == {<<"/", "b">>}

\* id.trim_start_matches('-')
RECURSIVE TrimStartDashes(_)
TrimStartDashes(id) ==
    IF id # <<>> /\ id[1] = "-" THEN TrimStartDashes(Tail(id)) ELSE id

\* format!("/{}", id.trim_start_matches('-').replace('-', "/")), kept when it exists
decode_project_id(id) ==
    LET trimmed == TrimStartDashes(id)
        path_with_slashes ==
            <<"/">> \o [i \in 1..Len(trimmed) |->
                           IF trimmed[i] = "-" THEN "/" ELSE trimmed[i]]
    IN  IF path_with_slashes \in ExistingPaths THEN path_with_slashes ELSE id

\* cwds[i] is what parse_session_metadata returns for the i-th session file:
\* None for Err, Some(cwd) for Ok.  The first three files are tried.
RECURSIVE FirstCwd(_, _)
FirstCwd(cwds, tries) ==
    IF cwds = <<>> \/ tries = 0 THEN EmptyPath
    ELSE IF IsSome(cwds[1]) /\ cwds[1][1] # EmptyPath THEN cwds[1][1]
    ELSE FirstCwd(Tail(cwds), tries - 1)

resolve_claude_project_dir(cwds, project_id) ==
    IF FirstCwd(cwds, 3) # EmptyPath THEN FirstCwd(cwds, 3)
    ELSE decode_project_id(project_id)

\* scanner.rs:121-124
MergeInto(existing, cursor_proj) ==
    [existing EXCEPT
        !.session_files = existing.session_files \o cursor_proj.session_files,
        !.sources = IF \E i \in 1..Len(existing.sources) : existing.sources[i] = CURSOR
                    THEN existing.sources
                    ELSE Append(existing.sources, CURSOR)]

\* scanner.rs:112-115, one container of the JSON-lines list
MergeClaudeProject ==
    /\ pc = "merge_claude"
    /\ proj_idx <= Len(claude_projects)
    /\ LET proj == claude_projects[proj_idx]
           key == normalize_path(proj.dir)
       IN  by_path' = MapInsert(by_path, key, proj)
    /\ proj_idx' = proj_idx + 1
    /\ UNCHANGED <<pc, claude_projects, cursor_projects, scanned>>
    /\ UNCHANGED normalizer_vars
    /\ UNCHANGED not_scan_vars

\* scanner.rs:117, the second loop starts
StartCursorMerge ==
    /\ pc = "merge_claude"
    /\ proj_idx > Len(claude_projects)
    /\ pc' = "merge_cursor"
    /\ proj_idx' = 1
    /\ UNCHANGED <<claude_projects, cursor_projects, by_path, scanned>>
    /\ UNCHANGED normalizer_vars
    /\ UNCHANGED not_scan_vars

\* scanner.rs:117-128, one container of the Cursor list
MergeCursorProject ==
    /\ pc = "merge_cursor"
    /\ proj_idx <= Len(cursor_projects)
    /\ LET cursor_proj == cursor_projects[proj_idx]
           key == normalize_path(cursor_proj.dir)
       IN  by_path' = IF key \in DOMAIN by_path
                      THEN [by_path EXCEPT ![key] = MergeInto(by_path[key], cursor_proj)]
                      ELSE MapInsert(by_path, key, cursor_proj)
    /\ proj_idx' = proj_idx + 1
    /\ UNCHANGED <<pc, claude_projects, cursor_projects, scanned>>
    /\ UNCHANGED normalizer_vars
    /\ UNCHANGED not_scan_vars

\* scanner.rs:130  by_path.into_values().collect()
CollectProjects ==
    /\ pc = "merge_cursor"
    /\ proj_idx > Len(cursor_projects)
    /\ \E order \in Orderings(DOMAIN by_path) :
          scanned' = [i \in 1..Len(order) |-> by_path[order[i]]]
    /\ pc' = "merged"
    /\ UNCHANGED <<claude_projects, cursor_projects, by_path, proj_idx>>
    /\ UNCHANGED normalizer_vars
    /\ UNCHANGED not_scan_vars

\* Directory names and workspace names are distinct: the i-th has the i-th letter.
Letter(i) == <<"b", "c", "d", "e", "f", "g">>[i]

\* What the session files of one JSON-lines container hold as cwd.
MetadataShapes ==
    {<<Some(<<"/", "a">>), Some(<<"/", "a">>)>>,
     <<Some(<<"/", "a", "/">>)>>,
     <<None, Some(<<"/", "b">>)>>,
     <<Some(EmptyPath), None>>}

\* The handles of a container: the k-th file of container id.
SessionFilesOf(id, n, source) ==
    [k \in 1..n |-> SessionFile([project |-> id, k |-> k], source)]

\* scanner.rs:53-63 for the directory <<"-", Letter(i)>>
ClaudeProject(i, cwds) ==
    LET project_id == <<"-", Letter(i)>>
        session_files == SessionFilesOf(project_id, Len(cwds), CLAUDE)
    IN  ScannedProject(project_id, resolve_claude_project_dir(cwds, project_id),
                       CLAUDE, <<CLAUDE>>, session_files)

\* The folder of a Cursor workspace and the number of its composers.
WorkspaceShapes ==
    {[folder |-> <<"/", "a">>, composers |-> 2],
     [folder |-> <<"/", "a", "/">>, composers |-> 1],
     [folder |-> <<"/", "b">>, composers |-> 1]}

\* cursor_scanner.rs:168-184 for the workspace <<"w", Letter(i)>>
CursorProject(i, ws) ==
    LET project_id == <<"w", Letter(i)>>
    IN  ScannedProject(project_id, ws.folder, CURSOR, <<CURSOR>>,
                       SessionFilesOf(project_id, ws.composers, CURSOR))

IsClaudeScan(n) ==
    \E f \in [1..n -> MetadataShapes] :
        claude_projects = [i \in 1..n |-> ClaudeProject(i, f[i])]

IsCursorScan(n) ==
    \E f \in [1..n -> WorkspaceShapes] :
        cursor_projects = [i \in 1..n |-> CursorProject(i, f[i])]

InitScan ==
    /\ \E n \in 0..MaxProjects : IsClaudeScan(n)
    /\ \E n \in 0..MaxProjects : IsCursorScan(n)
    /\ pc = "merge_claude"
    /\ by_path = <<>>
    /\ proj_idx = 1
    /\ scanned = <<>>
    /\ NormalizersIdle
    /\ CostIdle
    /\ MetricsIdle
    /\ LoadIdle
    /\ TuiIdle

NextScan == MergeClaudeProject \/ StartCursorMerge \/ MergeCursorProject \/ CollectProjects

SpecScan == InitScan /\ [][NextScan]_vars

-----------------------------------------------------------------------------
(* Claims about scan_all_projects.                                         *)

\* The containers handed to scan_all_projects, in the order they are merged.
InputProjects == claude_projects \o cursor_projects

InputKeys == {normalize_path(InputProjects[i].dir) : i \in DOMAIN InputProjects}

\* The handles of the containers of projs whose normalized path is key, in order.
RECURSIVE HandlesWithKey(_, _)
HandlesWithKey(projs, key) ==
    IF projs = <<>> THEN <<>>
    ELSE (IF normalize_path(projs[1].dir) = key THEN projs[1].session_files ELSE <<>>)
         \o HandlesWithKey(Tail(projs), key)

SourcesWithKey(key) ==
    {InputProjects[i].sources[j] :
        i \in {n \in DOMAIN InputProjects : normalize_path(InputProjects[n].dir) = key},
        j \in {1}}

NoDuplicates(seq) == \A i, j \in DOMAIN seq : seq[i] = seq[j] => i = j

\* C11: once scan_all_projects has returned, every normalized path of an input
\* container has exactly one output container; its session handles are the
\* concatenation of the handles of the input containers with that path, its
\* sources are the union of theirs without a duplicate tag, and there is no
\* other output container.
C11_PathMerge ==
    pc = "merged" =>
        /\ Len(scanned) = Cardinality(InputKeys)
        /\ \A key \in InputKeys :
              \E i \in DOMAIN scanned :
                  /\ normalize_path(scanned[i].dir) = key
                  /\ scanned[i].session_files = HandlesWithKey(InputProjects, key)
                  /\ {scanned[i].sources[j] : j \in DOMAIN scanned[i].sources}
                        = SourcesWithKey(key)
                  /\ NoDuplicates(scanned[i].sources)

\* The places of the output where a handle occurs.
OccurrencesOf(handle) ==
    UNION {{<<i, k>> : k \in {m \in DOMAIN scanned[i].session_files :
                                    scanned[i].session_files[m] = handle}} :
           i \in DOMAIN scanned}

\* C12: once scan_all_projects has returned, every session handle of every
\* input container occurs exactly once in the output.
C12_NoHandleDropped ==
    pc = "merged" =>
        \A i \in DOMAIN InputProjects :
            \A k \in DOMAIN InputProjects[i].session_files :
                Cardinality(OccurrencesOf(InputProjects[i].session_files[k])) = 1

-----------------------------------------------------------------------------
(* format.rs: model_pricing and estimate_cost.                             *)
(*                                                                         *)
(* A model name is a sequence of one-character strings.  A rate is held in *)
(* hundredths of a dollar per million tokens, so that 0.08 is the integer  *)
(* 8; a cost is then a whole number of 10^-8 dollars, held as the pair     *)
(* [hi, lo] of Ms, whose hi part is the cost in cents.  The f64 of the     *)
(* program is modelled by the exact value.                                 *)

\* char::to_lowercase for the capitals that occur in the names of the model
LowerOf(c) ==
    CASE c = "O" -> "o" [] c = "P" -> "p" [] c = "U" -> "u" [] c = "S" -> "s"
      [] c = "H" -> "h" [] c = "A" -> "a" [] c = "I" -> "i" [] c = "K" -> "k"
      [] OTHER -> c

\* str::to_lowercase
to_lowercase(s) == [i \in DOMAIN s |-> LowerOf(s[i])]

\* str::contains
contains(s, pat) ==
    \E i \in 0..(Len(s) - Len(pat)) : SubSeq(s, i + 1, i + Len(pat)) = pat

Opus == <<"o", "p", "u", "s">>

Haiku == <<"h", "a", "i", "k", "u">>

Pricing(input_rate, output_rate, cache_rate) ==
    [input_rate |-> input_rate, output_rate |-> output_rate, cache_rate |-> cache_rate]

\* model_pricing: (15.0, 75.0, 1.5), (0.8, 4.0, 0.08), (3.0, 15.0, 0.3)
model_pricing(mdl) ==
    LET m == to_lowercase(mdl)
    IN  IF contains(m, Opus) THEN Pricing(1500, 7500, 150)
        ELSE IF contains(m, Haiku) THEN Pricing(80, 400, 8)
        ELSE Pricing(300, 1500, 30)

\* tokens as f64 * rate: the product tokens * rate as an Ms pair, computed in
\* two parts because it exceeds 2^31.
TimesRate(n, rate) ==
    LET th == n \div 1000
        tl == n % 1000
    IN  Ms((th * rate) \div 1000, (((th * rate) % 1000) * 1000) + (tl * rate))

\* Faulty variant of NonCacheInput: the subtraction without the comparison.
NonCacheInputUnguarded(input_tokens, cache_read_tokens) ==
    input_tokens - cache_read_tokens

\* format.rs:98-102
NonCacheInput(input_tokens, cache_read_tokens) ==
    IF input_tokens > cache_read_tokens THEN input_tokens - cache_read_tokens ELSE 0

\* estimate_cost.  The division by 1_000_000.0 is the unit of the result.
estimate_cost(mdl, input_tokens, output_tokens, cache_read_tokens) ==
    LET rates == model_pricing(mdl)
        non_cache_input == NonCacheInput(input_tokens, cache_read_tokens)
    IN  MsAdd(MsAdd(TimesRate(non_cache_input, rates.input_rate),
                    TimesRate(output_tokens, rates.output_rate)),
              TimesRate(cache_read_tokens, rates.cache_rate))

CostArgs(mdl, input_tokens, output_tokens, cache_read_tokens) ==
    [model |-> mdl, input_tokens |-> input_tokens, output_tokens |-> output_tokens,
     cache_read_tokens |-> cache_read_tokens]

\* One call of estimate_cost.
EstimateCost ==
    /\ pc = "cost"
    /\ cost' = Some(estimate_cost(cost_args.model, cost_args.input_tokens,
                                  cost_args.output_tokens, cost_args.cache_read_tokens))
    /\ pc' = "costed"
    /\ UNCHANGED cost_args
    /\ UNCHANGED normalizer_vars
    /\ UNCHANGED not_cost_vars

\* "claude-opus-4", "Claude-OPUS", "claude-haiku-3", "haiku-opus", "sonnet", ""
CostModels ==
    {<<"c", "l", "a", "u", "d", "e", "-", "o", "p", "u", "s", "-", "4">>,
     <<"C", "l", "a", "u", "d", "e", "-", "O", "P", "U", "S">>,
     <<"c", "l", "a", "u", "d", "e", "-", "h", "a", "i", "k", "u", "-", "3">>,
     <<"h", "a", "i", "k", "u", "-", "o", "p", "u", "s">>,
     <<"s", "o", "n", "n", "e", "t">>,
     <<>>}

CostInputs == {0, 1, 1234, 2000000}

CostOutputs == {0, 7, 100000}

CostCacheReads == {0, 1, 1500, 500000, 3000000}

InitCost ==
    /\ \E mdl \in CostModels, i \in CostInputs, o \in CostOutputs, cr \in CostCacheReads :
          cost_args = CostArgs(mdl, i, o, cr)
    /\ cost = None
    /\ pc = "cost"
    /\ NormalizersIdle
    /\ ScanIdle
    /\ MetricsIdle
    /\ LoadIdle
    /\ TuiIdle

NextCost == EstimateCost

SpecCost == InitCost /\ [][NextCost]_vars

\* The greater of a - b and 0.
MonusOf(a, b) == IF a - b >= 0 THEN a - b ELSE 0

\* The rates the claim gives for a model name, in hundredths.
ClaimedRates(mdl) ==
    LET m == to_lowercase(mdl)
    IN  CASE contains(m, Opus) -> <<1500, 7500, 150>>
          [] contains(m, Haiku) /\ ~contains(m, Opus) -> <<80, 400, 8>>
          [] OTHER -> <<300, 1500, 30>>

\* a * b for an Ms pair a and a natural b, by repeated doubling.
RECURSIVE MsTimes(_, _)
MsTimes(a, b) ==
    IF b = 0 THEN MsZero
    ELSE IF b % 2 = 1 THEN MsAdd(a, MsTimes(MsAdd(a, a), b \div 2))
    ELSE MsTimes(MsAdd(a, a), b \div 2)

\* claude-opus-4 with input 2,000,000, output 100,000 and cache_read 500,000
OpusExample ==
    CostArgs(<<"c", "l", "a", "u", "d", "e", "-", "o", "p", "u", "s", "-", "4">>,
             2000000, 100000, 500000)

\* C13: the value estimate_cost returns is
\* (max(input - cache_read, 0) * input_rate + output * output_rate
\*  + cache_read * cache_rate) / 1,000,000 with the rates of the model name:
\* opus when the lower-cased name contains "opus", haiku when it contains
\* "haiku" and not "opus", sonnet otherwise; it is never negative, and the
\* opus example costs 30.75.
C13_CostFormula ==
    cost # None =>
        LET a == cost_args
            r == ClaimedRates(a.model)
        IN  /\ cost[1] = MsAdd(MsAdd(MsTimes(Ms(0, r[1]),
                                             MonusOf(a.input_tokens, a.cache_read_tokens)),
                                     MsTimes(Ms(0, r[2]), a.output_tokens)),
                               MsTimes(Ms(0, r[3]), a.cache_read_tokens))
            /\ cost[1].hi >= 0
            /\ a = OpusExample => cost[1] = Ms(3075, 0)

\* estimate_cost has returned for a haiku model with cache_read > input > 0.
C13_Witness ==
    /\ cost # None
    /\ cost_args.cache_read_tokens > cost_args.input_tokens
    /\ cost_args.input_tokens > 0
    /\ contains(to_lowercase(cost_args.model), Haiku)
    /\ ~contains(to_lowercase(cost_args.model), Opus)
    /\ cost[1] = MsAdd(MsTimes(Ms(0, 400), cost_args.output_tokens),
                       MsTimes(Ms(0, 8), cost_args.cache_read_tokens))

-----------------------------------------------------------------------------
(* Statements about the code contribution parse_session_file counts.       *)

\* The blocks of the assistant record of line i.
BlocksOfLine(i) == UnwrapOr(raw[i].event.message[1].content, <<>>)

\* The places <<i, k>> of the tool_use blocks called name that carry an input
\* object, among the records that survive deduplication.
ToolBlocks(name) ==
    UNION {{<<i, k>> : k \in {n \in DOMAIN BlocksOfLine(i) :
                                 /\ BlocksOfLine(i)[n].type = "tool_use"
                                 /\ BlocksOfLine(i)[n].name = Some(name)
                                 /\ BlocksOfLine(i)[n].input # None}} :
           i \in SurvivingLines}

InputAt(place) == BlocksOfLine(place[1])[place[2]].input[1]

\* The number of lines of a string: the line terminators, and the last
\* character when it is not one; 0 for an absent string.
LineCountOf(o) ==
    LET s == UnwrapOr(o, <<>>)
    IN  Cardinality({n \in DOMAIN s : s[n] = "\n" \/ n = Len(s)})

EditsOf(fp) == {place \in ToolBlocks("Edit") : InputAt(place).file_path = Some(fp)}

WritesOf(fp) ==
    {place \in ToolBlocks("Write") :
        InputAt(place).file_path = Some(fp) /\ InputAt(place).content # None}

NewLinesOver(places) == SumOver(places, [x \in places |-> LineCountOf(InputAt(x).new_string)])

OldLinesOver(places) == SumOver(places, [x \in places |-> LineCountOf(InputAt(x).old_string)])

\* The file paths the Edit and Write invocations name, and those counted.
PathsNamed ==
    {InputAt(place).file_path[1] :
        place \in {x \in ToolBlocks("Edit") \cup ToolBlocks("Write") :
                      InputAt(x).file_path # None}}
        \cup DOMAIN file_contributions

WrittenLinesOver(places) == SumOver(places, [x \in places |-> LineCountOf(InputAt(x).content)])

\* C14: in the returned session lines_removed is the sum of the line counts of
\* old_string over the Edit invocations of the deduplicated assistant records,
\* lines_added is the sum of the line counts of new_string over them (beside
\* the lines of Write invocations), and the FileContribution of every file
\* path holds the same two sums over the Edit invocations naming that path;
\* an empty or absent string counts 0.
C14_EditLineAccounting ==
    pc = "done" =>
        /\ lines_removed = OldLinesOver(ToolBlocks("Edit"))
        /\ lines_added = NewLinesOver(ToolBlocks("Edit"))
                            + WrittenLinesOver(ToolBlocks("Write"))
        /\ \A fp \in PathsNamed :
              IF EditsOf(fp) = {} /\ WritesOf(fp) = {}
              THEN fp \notin DOMAIN file_contributions
              ELSE /\ fp \in DOMAIN file_contributions
                   /\ file_contributions[fp].removed = OldLinesOver(EditsOf(fp))
                   /\ file_contributions[fp].added =
                          NewLinesOver(EditsOf(fp)) + WrittenLinesOver(WritesOf(fp))
        /\ result[1].lines_added = lines_added
        /\ result[1].lines_removed = lines_removed
        /\ result[1].file_contributions = file_contributions

\* C14 witness: a file of one record with one Edit of f1 whose old_string has
\* 3 lines and whose new_string has 5 is parsed to lines_added 5,
\* lines_removed 3 and FileContribution {added: 5, removed: 3}.
C14_Witness ==
    /\ pc = "done"
    /\ Len(raw) = 1
    /\ ToolBlocks("Edit") = {<<1, 1>>}
    /\ InputAt(<<1, 1>>).old_string = Some(ThreeLines)
    /\ InputAt(<<1, 1>>).new_string = Some(FiveLines)
    /\ lines_added = 5
    /\ lines_removed = 3
    /\ file_contributions = [x \in {"f1"} |-> FileContribution(5, 3)]

-----------------------------------------------------------------------------
(* parse_session_file on a log with blank and unparsable lines, and then   *)
(* on the same log without them.                                           *)

\* The content with every blank or unparsable line removed.
IsValidLine(line) == ParseLine(line) # None

WithoutNoise(content) == SelectSeq(content, IsValidLine)

\* parse_session_file called on the content without its blank and unparsable
\* lines: the first ParsedSession is kept for comparison.
ParseCleaned ==
    /\ pc = "done"
    /\ first_result = None
    /\ WithoutNoise(raw) # raw
    /\ first_result' = result
    /\ raw' = WithoutNoise(raw)
    /\ pc' = "scan"
    /\ line_idx' = 1
    /\ user_events' = <<>>
    /\ assistant_by_id' = <<>>
    /\ assistant_no_id' = <<>>
    /\ all_events' = <<>>
    /\ ev_idx' = 1
    /\ cwd' = ""
    /\ duration_ms' = 0
    /\ started_at' = EmptyString
    /\ last_active' = EmptyString
    /\ messages' = <<>>
    /\ tokens' = TokenTotalsZero
    /\ model' = ""
    /\ result' = None
    /\ tool_usage' = <<>>
    /\ lines_added' = 0
    /\ lines_removed' = 0
    /\ file_contributions' = <<>>
    /\ UNCHANGED cursor_vars
    /\ UNCHANGED pipeline_vars

\* Records without timestamp: two assistant records with different message
\* ids, one without id, and a user record.
NoiseRecords ==
    {RawEvent("assistant", None, None, None, None,
              Some(RawMessage("assistant", id, None, None)), None) : id \in MessageIds}
    \cup {RawEvent("user", None, None, None, None,
                   Some(RawMessage("user", None, None, None)), None)}

\* raw is a file of n lines, each blank, unparsable or a record.
IsNoisyFile(n) ==
    \E f \in [1..n -> {BlankLine, MalformedLine} \cup NoiseRecords] :
        raw = [i \in 1..n |->
                  IF f[i] \in NoiseRecords THEN JsonLine(WithUuid(f[i], i)) ELSE f[i]]

InitResilience ==
    /\ \E n \in 1..MaxLines : IsNoisyFile(n)
    /\ ParserStart
    /\ first_result = None
    /\ db_rows = <<>>
    /\ bubbles = <<>>
    /\ bubble_idx = 1
    /\ composer_created_at = EmptyString
    /\ start_time = None
    /\ PipelineIdle

NextResilience == ScanLine \/ MergeAndSort \/ FoldEvent \/ ReturnSession \/ ParseCleaned

SpecResilience == InitResilience /\ [][NextResilience]_vars

\* C15: parse_session_file returns a ParsedSession (never an error) whatever
\* blank or unparsable lines the content holds, and the ParsedSession of the
\* content without those lines equals the ParsedSession of the content.
C15_NoiseRemovedSameResult ==
    pc = "done" =>
        /\ result # None
        /\ first_result # None => result = first_result

-----------------------------------------------------------------------------
(* metrics.rs: build_project_summaries and compute_global_metrics.         *)
(*                                                                         *)
(* Here cwd and model are sequences of one-character strings, and a cost   *)
(* is the exact value estimate_cost returns.  In a timestamp string the    *)
(* character 'T' is the number CharT.                                      *)

\* Largest number of sessions of a project.
MaxSessions == 2

CharT == 84

\* sessions.iter().find(|s| !s.cwd.is_empty()).map(|s| s.cwd.clone()).unwrap_or_default()
RECURSIVE FirstNonEmptyCwd(_)
FirstNonEmptyCwd(sessions) ==
    IF sessions = <<>> THEN EmptyPath
    ELSE IF sessions[1].cwd # EmptyPath THEN sessions[1].cwd
    ELSE FirstNonEmptyCwd(Tail(sessions))

\* path.split('/').last(): what follows the last separator
RECURSIVE LastSegment(_)
LastSegment(path) ==
    IF \E i \in DOMAIN path : path[i] = "/"
    THEN LastSegment(Tail(path))
    ELSE path

\* metrics.rs:22-26
ProjectName(path, project_id) ==
    IF path # EmptyPath THEN LastSegment(path) ELSE project_id

\* for (tool, count) in &usage { *tool_usage.entry(tool).or_insert(0) += count }
MergeCounts(m, usage) ==
    [x \in DOMAIN m \cup DOMAIN usage |->
        (IF x \in DOMAIN m THEN m[x] ELSE 0) + (IF x \in DOMAIN usage THEN usage[x] ELSE 0)]

AddTokens(t, u) ==
    [input |-> t.input + u.input, output |-> t.output + u.output,
     cache_read |-> t.cache_read + u.cache_read,
     cache_creation |-> t.cache_creation + u.cache_creation]

\* metrics.rs:28-34
SummaryStart ==
    [tokens |-> TokenTotalsZero, tool_usage |-> <<>>, message_count |-> 0,
     lines_added |-> 0, lines_removed |-> 0, last_active |-> EmptyString, model |-> <<>>]

\* Faulty variant of LaterActive: the last_active of the session seen last is kept.
LaterActiveLastSeen(cur, s) == IF s.last_active # EmptyString THEN s.last_active ELSE cur

\* metrics.rs:49-51
LaterActive(cur, s) ==
    IF s.last_active # EmptyString /\ StrLt(cur, s.last_active) THEN s.last_active ELSE cur

\* metrics.rs:36-55, one session
AddSession(acc, s) ==
    [tokens |-> AddTokens(acc.tokens, s.total_tokens),
     tool_usage |-> MergeCounts(acc.tool_usage, s.tool_usage),
     message_count |-> acc.message_count + Len(s.messages),
     lines_added |-> acc.lines_added + s.lines_added,
     lines_removed |-> acc.lines_removed + s.lines_removed,
     last_active |-> LaterActive(acc.last_active, s),
     model |-> IF acc.model = <<>> /\ s.model # <<>> THEN s.model ELSE acc.model]

RECURSIVE FoldSessions(_, _)
FoldSessions(acc, sessions) ==
    IF sessions = <<>> THEN acc
    ELSE FoldSessions(AddSession(acc, sessions[1]), Tail(sessions))

\* metrics.rs:16-79
ProjectSummary(project_id, sessions) ==
    LET path == FirstNonEmptyCwd(sessions)
        acc == FoldSessions(SummaryStart, sessions)
    IN  [id |-> project_id,
         name |-> ProjectName(path, project_id),
         path |-> path,
         session_count |-> Len(sessions),
         message_count |-> acc.message_count,
         total_tokens |-> acc.tokens,
         lines_added |-> acc.lines_added,
         lines_removed |-> acc.lines_removed,
         last_active |-> acc.last_active,
         tool_usage |-> acc.tool_usage,
         cost |-> estimate_cost(acc.model, acc.tokens.input, acc.tokens.output,
                                acc.tokens.cache_read),
         model |-> acc.model,
         sessions |-> sessions]

\* metrics.rs:11-80, one project
BuildSummary ==
    /\ pc = "summaries"
    /\ agg_idx <= Len(project_sessions)
    /\ LET project_id == project_sessions[agg_idx][1]
           sessions == project_sessions[agg_idx][2]
       IN  summaries' = IF sessions = <<>> THEN summaries
                        ELSE Append(summaries, ProjectSummary(project_id, sessions))
    /\ agg_idx' = agg_idx + 1
    /\ UNCHANGED <<pc, project_sessions, totals, metrics>>
    /\ UNCHANGED normalizer_vars
    /\ UNCHANGED not_metrics_vars

\* The place of a summary in a list sorted by last_active descending: after
\* the summaries that are not less.
RECURSIVE InsertByLastActive(_, _)
InsertByLastActive(sorted, p) ==
    IF sorted = <<>> THEN <<p>>
    ELSE IF StrLt(sorted[Len(sorted)].last_active, p.last_active)
         THEN Append(InsertByLastActive(SubSeq(sorted, 1, Len(sorted) - 1), p),
                     sorted[Len(sorted)])
         ELSE Append(sorted, p)

RECURSIVE SortSummariesFrom(_, _)
SortSummariesFrom(sorted, rest) ==
    IF rest = <<>> THEN sorted
    ELSE SortSummariesFrom(InsertByLastActive(sorted, rest[1]), Tail(rest))

\* summaries.sort_by(|a, b| b.last_active.cmp(&a.last_active)), a stable sort
SortByLastActive(list) == SortSummariesFrom(<<>>, list)

\* metrics.rs:88-99
TotalsStart ==
    [tokens |-> TokenTotalsZero, tool_usage |-> <<>>, total_messages |-> 0,
     total_sessions |-> 0, lines_added |-> 0, lines_removed |-> 0,
     total_cost |-> MsZero, day_map |-> <<>>]

\* metrics.rs:82-84 and the entry of compute_global_metrics
SortSummaries ==
    /\ pc = "summaries"
    /\ agg_idx > Len(project_sessions)
    /\ summaries' = SortByLastActive(summaries)
    /\ totals' = TotalsStart
    /\ agg_idx' = 1
    /\ pc' = "global"
    /\ UNCHANGED <<project_sessions, metrics>>
    /\ UNCHANGED normalizer_vars
    /\ UNCHANGED not_metrics_vars

\* s.started_at.split('T').next(): what precedes the first 'T'
RECURSIVE DayOf(_)
DayOf(ts) ==
    IF ts = <<>> \/ ts[1] = CharT THEN <<>> ELSE <<ts[1]>> \o DayOf(Tail(ts))

TimelineEntry(date, sessions, msgs, token_input, token_output) ==
    [date |-> date, sessions |-> sessions, messages |-> msgs,
     token_input |-> token_input, token_output |-> token_output]

\* Faulty variant of AddToDay: a session replaces the entry of its day.
AddToDayReplacing(day_map, s) ==
    IF s.started_at = EmptyString \/ DayOf(s.started_at) = <<>> THEN day_map
    ELSE MapInsert(day_map, DayOf(s.started_at),
                   TimelineEntry(DayOf(s.started_at), 1, Len(s.messages),
                                 s.total_tokens.input, s.total_tokens.output))

\* metrics.rs:121-136
AddToDay(day_map, s) ==
    IF s.started_at = EmptyString \/ DayOf(s.started_at) = <<>> THEN day_map
    ELSE LET day == DayOf(s.started_at)
             entry == IF day \in DOMAIN day_map THEN day_map[day]
                      ELSE TimelineEntry(day, 0, 0, 0, 0)
         IN  MapInsert(day_map, day,
                       TimelineEntry(day, entry.sessions + 1,
                                     entry.messages + Len(s.messages),
                                     entry.token_input + s.total_tokens.input,
                                     entry.token_output + s.total_tokens.output))

RECURSIVE FoldDays(_, _)
FoldDays(day_map, sessions) ==
    IF sessions = <<>> THEN day_map
    ELSE FoldDays(AddToDay(day_map, sessions[1]), Tail(sessions))

\* Faulty variant of AddSummary: session_count is not added.
AddSummaryCountingProjects(t, p) ==
    [tokens |-> AddTokens(t.tokens, p.total_tokens),
     tool_usage |-> MergeCounts(t.tool_usage, p.tool_usage),
     total_messages |-> t.total_messages + p.message_count,
     total_sessions |-> t.total_sessions + 1,
     lines_added |-> t.lines_added + p.lines_added,
     lines_removed |-> t.lines_removed + p.lines_removed,
     total_cost |-> MsAdd(t.total_cost, p.cost),
     day_map |-> FoldDays(t.day_map, p.sessions)]

\* metrics.rs:101-138, one project
AddSummary(t, p) ==
    [tokens |-> AddTokens(t.tokens, p.total_tokens),
     tool_usage |-> MergeCounts(t.tool_usage, p.tool_usage),
     total_messages |-> t.total_messages + p.message_count,
     total_sessions |-> t.total_sessions + p.session_count,
     lines_added |-> t.lines_added + p.lines_added,
     lines_removed |-> t.lines_removed + p.lines_removed,
     total_cost |-> MsAdd(t.total_cost, p.cost),
     day_map |-> FoldDays(t.day_map, p.sessions)]

AddProject ==
    /\ pc = "global"
    /\ agg_idx <= Len(summaries)
    /\ totals' = AddSummary(totals, summaries[agg_idx])
    /\ agg_idx' = agg_idx + 1
    /\ UNCHANGED <<pc, project_sessions, summaries, metrics>>
    /\ UNCHANGED normalizer_vars
    /\ UNCHANGED not_metrics_vars

RECURSIVE InsertByDate(_, _)
InsertByDate(sorted, e) ==
    IF sorted = <<>> THEN <<e>>
    ELSE IF StrLt(e.date, sorted[Len(sorted)].date)
         THEN Append(InsertByDate(SubSeq(sorted, 1, Len(sorted) - 1), e),
                     sorted[Len(sorted)])
         ELSE Append(sorted, e)

RECURSIVE SortTimelineFrom(_, _)
SortTimelineFrom(sorted, rest) ==
    IF rest = <<>> THEN sorted
    ELSE SortTimelineFrom(InsertByDate(sorted, rest[1]), Tail(rest))

\* timeline.sort_by(|a, b| a.date.cmp(&b.date))
SortByDate(list) == SortTimelineFrom(<<>>, list)

\* metrics.rs:143-156
GlobalMetrics(t, total_projects, timeline) ==
    [total_projects |-> total_projects,
     total_sessions |-> t.total_sessions,
     total_messages |-> t.total_messages,
     total_tokens |-> t.tokens,
     tool_usage |-> t.tool_usage,
     timeline |-> timeline,
     total_lines_added |-> t.lines_added,
     total_lines_removed |-> t.lines_removed,
     total_cost |-> t.total_cost]

\* metrics.rs:140-156
ReturnMetrics ==
    /\ pc = "global"
    /\ agg_idx > Len(summaries)
    /\ \E order \in Orderings(DOMAIN totals.day_map) :
          metrics' = Some(GlobalMetrics(totals, Len(summaries),
                              SortByDate([i \in 1..Len(order) |-> totals.day_map[order[i]]])))
    /\ pc' = "reported"
    /\ UNCHANGED <<project_sessions, summaries, agg_idx, totals>>
    /\ UNCHANGED normalizer_vars
    /\ UNCHANGED not_metrics_vars

\* A session of n messages as the aggregator reads it.
SessionOf(c, n, tok, tu, la, lr, first, last, mdl) ==
    ParsedSession(c, [i \in 1..n |-> ConversationMessage("user", EmptyString, "", None)],
                  tok, 0, first, last, mdl, CLAUDE)
        @@ Contribution(tu, la, lr, <<>>)

\* An opus session of day 1 with two tools, a session of day 2 without model,
\* and a haiku session without timestamps.
SessionShapes ==
    {SessionOf(<<"/", "a">>, 2,
               [input |-> 2000000, output |-> 100000, cache_read |-> 500000,
                cache_creation |-> 8],
               [x \in {"Edit", "Read"} |-> IF x = "Edit" THEN 1 ELSE 2], 5, 3,
               <<1, CharT, 5>>, <<1, CharT, 9>>, Opus),
     SessionOf(EmptyPath, 1,
               [input |-> 16, output |-> 32, cache_read |-> 64, cache_creation |-> 0],
               [x \in {"Read"} |-> 1], 0, 1,
               <<2, CharT, 1>>, <<2, CharT, 2>>, <<>>),
     SessionOf(<<"/", "b", "/">>, 3,
               [input |-> 1, output |-> 1000, cache_read |-> 3, cache_creation |-> 1],
               <<>>, 7, 0,
               EmptyString, EmptyString, Haiku)}

IsProjectSessions(n) ==
    \E f \in [1..n -> UNION {[1..k -> SessionShapes] : k \in 0..MaxSessions}] :
        project_sessions = [i \in 1..n |-> <<(<<"-", Letter(i)>>), f[i]>>]

InitMetrics ==
    /\ \E n \in 0..MaxProjects : IsProjectSessions(n)
    /\ pc = "summaries"
    /\ summaries = <<>>
    /\ agg_idx = 1
    /\ totals = <<>>
    /\ metrics = None
    /\ NormalizersIdle
    /\ ScanIdle
    /\ CostIdle
    /\ LoadIdle
    /\ TuiIdle

NextMetrics == BuildSummary \/ SortSummaries \/ AddProject \/ ReturnMetrics

SpecMetrics == InitMetrics /\ [][NextMetrics]_vars

-----------------------------------------------------------------------------
(* Statements about the aggregation.                                       *)

\* The sum of field(s) over the sessions of a list, given as a function of the place.
SumOfSessions(sessions, f) == SumOver(DOMAIN sessions, f)

ToolNames(sessions) == UNION {DOMAIN sessions[k].tool_usage : k \in DOMAIN sessions}

CountOf(usage, name) == IF name \in DOMAIN usage THEN usage[name] ELSE 0

\* C18: every project with at least one session has one ProjectSummary, and
\* in every ProjectSummary the four token totals, message_count, lines_added
\* and lines_removed are the sums over its sessions, session_count is their
\* number, tool_usage[name] is the sum of their counters for name, last_active
\* is the greatest non-empty last_active among them (empty when there is
\* none), and model is the first non-empty model in session order.
C18_PerProjectAggregation ==
    pc \in {"global", "reported"} =>
        /\ \A i \in DOMAIN project_sessions :
              project_sessions[i][2] # <<>> =>
                  Cardinality({j \in DOMAIN summaries :
                                  /\ summaries[j].id = project_sessions[i][1]
                                  /\ summaries[j].sessions = project_sessions[i][2]}) = 1
        /\ \A j \in DOMAIN summaries :
              LET p == summaries[j]
                  ss == p.sessions
                  I == DOMAIN ss
              IN  /\ p.total_tokens.input = SumOver(I, [k \in I |-> ss[k].total_tokens.input])
                  /\ p.total_tokens.output = SumOver(I, [k \in I |-> ss[k].total_tokens.output])
                  /\ p.total_tokens.cache_read =
                         SumOver(I, [k \in I |-> ss[k].total_tokens.cache_read])
                  /\ p.total_tokens.cache_creation =
                         SumOver(I, [k \in I |-> ss[k].total_tokens.cache_creation])
                  /\ p.message_count = SumOver(I, [k \in I |-> Len(ss[k].messages)])
                  /\ p.lines_added = SumOver(I, [k \in I |-> ss[k].lines_added])
                  /\ p.lines_removed = SumOver(I, [k \in I |-> ss[k].lines_removed])
                  /\ p.session_count = Len(ss)
                  /\ DOMAIN p.tool_usage = ToolNames(ss)
                  /\ \A name \in ToolNames(ss) :
                        p.tool_usage[name] =
                            SumOver(I, [k \in I |-> CountOf(ss[k].tool_usage, name)])
                  /\ IF \E k \in I : ss[k].last_active # EmptyString
                     THEN /\ \E k \in I : p.last_active = ss[k].last_active
                          /\ \A k \in I : StrLeq(ss[k].last_active, p.last_active)
                     ELSE p.last_active = EmptyString
                  /\ IF \E k \in I : ss[k].model # <<>>
                     THEN \E k \in I : /\ ss[k].model # <<>>
                                       /\ \A l \in 1..(k - 1) : ss[l].model = <<>>
                                       /\ p.model = ss[k].model
                     ELSE p.model = <<>>

\* C18 witness: a summary of two sessions, the first without model and with
\* the greater last_active, the second an opus session.
C18_Witness ==
    /\ pc = "reported"
    /\ \E j \in DOMAIN summaries :
          /\ Len(summaries[j].sessions) = 2
          /\ summaries[j].sessions[1].model = <<>>
          /\ summaries[j].sessions[2].model = Opus
          /\ StrLt(summaries[j].sessions[2].last_active, summaries[j].sessions[1].last_active)
          /\ summaries[j].model = Opus
          /\ summaries[j].last_active = summaries[j].sessions[1].last_active
          /\ summaries[j].message_count = 3

\* The places <<j, k>> of the sessions the summaries retain.
RetainedSessions ==
    UNION {{<<j, k>> : k \in DOMAIN summaries[j].sessions} : j \in DOMAIN summaries}

SessionAt(place) == summaries[place[1]].sessions[place[2]]

RECURSIVE CostSum(_)
CostSum(list) ==
    IF list = <<>> THEN MsZero ELSE MsAdd(CostSum(SubSeq(list, 1, Len(list) - 1)),
                                          list[Len(list)].cost)

\* C19: the totals of the GlobalMetrics are the sums of the fields of the
\* ProjectSummary values; total_sessions is the number of sessions the
\* summaries retain and total_messages the number of their messages;
\* total_projects is the number of summaries.
C19_GlobalTotals ==
    metrics # None =>
        LET g == metrics[1]
            J == DOMAIN summaries
            names == UNION {DOMAIN summaries[j].tool_usage : j \in J}
        IN  /\ g.total_projects = Len(summaries)
            /\ g.total_sessions = SumOver(J, [j \in J |-> summaries[j].session_count])
            /\ g.total_sessions = Cardinality(RetainedSessions)
            /\ g.total_messages = SumOver(J, [j \in J |-> summaries[j].message_count])
            /\ g.total_messages =
                   SumOver(RetainedSessions,
                           [x \in RetainedSessions |-> Len(SessionAt(x).messages)])
            /\ g.total_tokens.input = SumOver(J, [j \in J |-> summaries[j].total_tokens.input])
            /\ g.total_tokens.output = SumOver(J, [j \in J |-> summaries[j].total_tokens.output])
            /\ g.total_tokens.cache_read =
                   SumOver(J, [j \in J |-> summaries[j].total_tokens.cache_read])
            /\ g.total_tokens.cache_creation =
                   SumOver(J, [j \in J |-> summaries[j].total_tokens.cache_creation])
            /\ g.total_lines_added = SumOver(J, [j \in J |-> summaries[j].lines_added])
            /\ g.total_lines_removed = SumOver(J, [j \in J |-> summaries[j].lines_removed])
            /\ g.total_cost = CostSum(summaries)
            /\ DOMAIN g.tool_usage = names
            /\ \A name \in names :
                  g.tool_usage[name] =
                      SumOver(J, [j \in J |-> CountOf(summaries[j].tool_usage, name)])

\* C19 witness: metrics over two summaries, one of two sessions and one of one.
C19_Witness ==
    /\ metrics # None
    /\ Len(summaries) = 2
    /\ summaries[1].session_count = 2
    /\ summaries[2].session_count = 1
    /\ metrics[1].total_sessions = 3
    /\ metrics[1].total_messages > 3
    /\ metrics[1].total_cost # MsZero

\* The sessions started on a date.
StartedOn(date) == {x \in RetainedSessions : DayOf(SessionAt(x).started_at) = date}

SessionsOfTimeline(timeline) ==
    SumOver(DOMAIN timeline, [i \in DOMAIN timeline |-> timeline[i].sessions])

\* The timeline has one entry for each date of dates, in strictly ascending
\* order, each counting and summing the sessions started on its date.
TimelineGroups(timeline, dates) ==
    /\ {timeline[i].date : i \in DOMAIN timeline} = dates
    /\ \A i \in 1..(Len(timeline) - 1) : StrLt(timeline[i].date, timeline[i + 1].date)
    /\ \A i \in DOMAIN timeline :
          LET on == StartedOn(timeline[i].date)
          IN  /\ timeline[i].sessions >= 1
              /\ timeline[i].sessions = Cardinality(on)
              /\ timeline[i].messages = SumOver(on, [x \in on |-> Len(SessionAt(x).messages)])
              /\ timeline[i].token_input =
                     SumOver(on, [x \in on |-> SessionAt(x).total_tokens.input])
              /\ timeline[i].token_output =
                     SumOver(on, [x \in on |-> SessionAt(x).total_tokens.output])

\* C20 as stated: the timeline has one entry per date among all sessions of
\* all projects, ascending, each with the count and sums of the sessions of
\* its date, and the sessions of the entries add up to total_sessions.
C20_TimelinePerDate ==
    metrics # None =>
        /\ TimelineGroups(metrics[1].timeline,
                          {DayOf(SessionAt(x).started_at) : x \in RetainedSessions})
        /\ SessionsOfTimeline(metrics[1].timeline) = metrics[1].total_sessions

\* The sessions whose started_at has a date: it is not empty and does not
\* begin with 'T'.
DatedSessions == {x \in RetainedSessions : DayOf(SessionAt(x).started_at) # <<>>}

\* C20 amended: the timeline has one entry per date among the sessions that
\* have one, ascending, each with the count and sums of the sessions of its
\* date; the sessions of the entries add up to the number of dated sessions,
\* which is at most total_sessions.
C20_TimelinePerDatedSession ==
    metrics # None =>
        /\ TimelineGroups(metrics[1].timeline,
                          {DayOf(SessionAt(x).started_at) : x \in DatedSessions})
        /\ SessionsOfTimeline(metrics[1].timeline) = Cardinality(DatedSessions)
        /\ SessionsOfTimeline(metrics[1].timeline) <= metrics[1].total_sessions

\* C20 witness: a timeline of two dates, the first with two sessions of
\* different projects, beside a session without started_at.
C20_Witness ==
    /\ metrics # None
    /\ Len(metrics[1].timeline) = 2
    /\ metrics[1].timeline[1].sessions = 2
    /\ \E x, y \in StartedOn(metrics[1].timeline[1].date) : x[1] # y[1]
    /\ \E x \in RetainedSessions : SessionAt(x).started_at = EmptyString
    /\ metrics[1].total_sessions = 4

-----------------------------------------------------------------------------
(* main.rs: load_data, with scanner.rs: scan_claude_projects.              *)

\* Largest number of entries of the projects directory.
MaxEntries == 2

\* An entry of a project directory: reading the entry fails, or it is not a
\* .jsonl name, or it is one; then file_type() is "file", "dir" or "err",
\* metadata() succeeds or not, and cwd is what parse_session_metadata finds.
FileEntry(kind, type, metadata_ok, c) ==
    [kind |-> kind, type |-> type, metadata_ok |-> metadata_ok, cwd |-> c]

JsonlFile(c) == FileEntry("jsonl", "file", TRUE, c)

\* Result<_, anyhow::Error>: the error a `?` of the scan returns
LoadError == [error |-> "io"]

Err(e) == <<e>>

\* The outcome of the loop over the files of one project directory
\* (scanner.rs:37-50): error is TRUE when a `?` returned early.
RECURSIVE ScanFiles(_, _, _, _)
ScanFiles(files, k, project_id, acc) ==
    IF k > Len(files) THEN acc
    ELSE LET f == files[k] IN
         IF f.kind = "entry_err" THEN [acc EXCEPT !.error = TRUE]
         ELSE IF f.kind # "jsonl" THEN ScanFiles(files, k + 1, project_id, acc)
         ELSE IF f.type = "err" THEN [acc EXCEPT !.error = TRUE]
         ELSE IF f.type = "dir" THEN ScanFiles(files, k + 1, project_id, acc)
         ELSE IF ~f.metadata_ok THEN [acc EXCEPT !.error = TRUE]
         ELSE ScanFiles(files, k + 1, project_id,
                        [acc EXCEPT
                            !.session_files =
                                Append(@, SessionFile([project |-> project_id, k |-> k],
                                                      CLAUDE)),
                            !.cwds = Append(@, f.cwd)])

\* Faulty variant of ScanProjectDir: a directory that cannot be listed is an
\* error of the scan.
ScanProjectDirStrict(entry) ==
    IF entry.listing = None
    THEN [error |-> TRUE, session_files |-> <<>>, cwds |-> <<>>]
    ELSE ScanFiles(entry.listing[1], 1, entry.name,
                   [error |-> FALSE, session_files |-> <<>>, cwds |-> <<>>])

\* scanner.rs:35-51: a directory that cannot be listed has no session files
ScanProjectDir(entry) ==
    IF entry.listing = None
    THEN [error |-> FALSE, session_files |-> <<>>, cwds |-> <<>>]
    ELSE ScanFiles(entry.listing[1], 1, entry.name,
                   [error |-> FALSE, session_files |-> <<>>, cwds |-> <<>>])

\* LoadMessage::Progress(msg), and whether the channel took it
Progress(msg) == [status |-> msg, delivered |-> progress = "alive"]

\* main.rs:51-55 and 80-85: nothing is sent without a sender; the result of
\* send is dropped
Send(log, msg) == IF progress = "absent" THEN log ELSE Append(log, msg)

\* main.rs:57 and scanner.rs:17-25
ScanRoot ==
    /\ pc = "scan_claude"
    /\ \/ /\ root_dir.status = "missing"
          /\ pc' = "scan_cursor"
          /\ UNCHANGED load_result
       \/ /\ root_dir.status = "unreadable"
          /\ pc' = "failed"
          /\ load_result' = Err(LoadError)
       \/ /\ root_dir.status = "listed"
          /\ pc' = "scan_entries"
          /\ UNCHANGED load_result
    /\ sent' = Send(sent, Progress("Scanning Claude projects..."))
    /\ UNCHANGED <<root_dir, cursor_scan, project_phase, session_results, parse_calls,
                   counter, progress, ticket>>
    /\ UNCHANGED <<scan_vars, cost_vars, metrics_vars, tui_vars>>
    /\ UNCHANGED normalizer_vars

\* scanner.rs:26-65, one entry of the projects directory
ScanEntry ==
    /\ pc = "scan_entries"
    /\ proj_idx <= Len(root_dir.entries)
    /\ LET entry == root_dir.entries[proj_idx] IN
       IF entry.kind \in {"entry_err", "type_err"}
       THEN /\ pc' = "failed"
            /\ load_result' = Err(LoadError)
            /\ UNCHANGED <<claude_projects, proj_idx>>
       ELSE IF entry.kind # "dir"
       THEN /\ proj_idx' = proj_idx + 1
            /\ UNCHANGED <<pc, load_result, claude_projects>>
       ELSE LET scan == ScanProjectDir(entry) IN
            IF scan.error
            THEN /\ pc' = "failed"
                 /\ load_result' = Err(LoadError)
                 /\ UNCHANGED <<claude_projects, proj_idx>>
            ELSE /\ proj_idx' = proj_idx + 1
                 /\ claude_projects' =
                        IF scan.session_files = <<>> THEN claude_projects
                        ELSE Append(claude_projects,
                                 ScannedProject(entry.name,
                                     resolve_claude_project_dir(scan.cwds, entry.name),
                                     CLAUDE, <<CLAUDE>>, scan.session_files))
                 /\ UNCHANGED <<pc, load_result>>
    /\ UNCHANGED <<root_dir, cursor_scan, project_phase, session_results, parse_calls,
                   counter, notify_vars>>
    /\ UNCHANGED <<cursor_projects, by_path, scanned>>
    /\ UNCHANGED <<cost_vars, metrics_vars, tui_vars>>
    /\ UNCHANGED normalizer_vars

\* scanner.rs:67 and main.rs:58
ScanReturns ==
    /\ pc = "scan_entries"
    /\ proj_idx > Len(root_dir.entries)
    /\ pc' = "scan_cursor"
    /\ UNCHANGED <<scan_vars, cost_vars, metrics_vars, load_vars, tui_vars>>
    /\ UNCHANGED normalizer_vars

\* cursor_scanner.rs:86-99 and 187: a workspace storage directory that is
\* missing or cannot be listed gives Ok(vec![])
scan_cursor_projects(storage) ==
    IF storage.status = "listed" THEN Some(storage.projects) ELSE Some(<<>>)

\* main.rs:60-64  scan_cursor_projects().unwrap_or_default(), and the call of
\* scan_all_projects
ScanCursor ==
    /\ pc = "scan_cursor"
    /\ cursor_projects' = UnwrapOr(scan_cursor_projects(cursor_scan), <<>>)
    /\ by_path' = <<>>
    /\ proj_idx' = 1
    /\ pc' = "merge_claude"
    /\ sent' = Send(Send(sent, Progress("Scanning Cursor workspaces...")),
                    Progress("Merging projects..."))
    /\ UNCHANGED <<claude_projects, scanned>>
    /\ UNCHANGED <<cost_vars, metrics_vars, tui_vars>>
    /\ UNCHANGED <<root_dir, cursor_scan, project_phase, session_results, parse_calls,
                   counter, load_result, progress, ticket>>
    /\ UNCHANGED normalizer_vars

\* The session handles no normalizer can read: the second of a container.
ParseFails(sf) == sf.id.k = 2

\* The ParsedSession a normalizer returns for a handle.
LoadedSession(sf, project_id) ==
    [SessionOf(EmptyPath, 1,
               [input |-> 1, output |-> 1, cache_read |-> 0, cache_creation |-> 0],
               <<>>, 0, 0, <<1, CharT, 1>>, <<1, CharT, 1>>, <<>>)
        EXCEPT !.source = sf.source]
        @@ [session_id |-> sf.id, project_id |-> project_id]

\* main.rs:90-97: the normalizer of the handle's source, then .ok()
ParseHandle(sf, project_id) ==
    IF ParseFails(sf) THEN None ELSE Some(LoadedSession(sf, project_id))

Pending == [state |-> "pending"]

Returned(outcome) == [state |-> "returned", outcome |-> outcome]

\* main.rs:70-71  scanned.into_par_iter(): no worker has started
Fork ==
    /\ pc = "merged"
    /\ project_phase' = [i \in DOMAIN scanned |-> "idle"]
    /\ session_results' =
           [i \in DOMAIN scanned |-> [k \in DOMAIN scanned[i].session_files |-> Pending]]
    /\ parse_calls' =
           [id \in UNION {{scanned[i].session_files[k].id :
                              k \in DOMAIN scanned[i].session_files} :
                          i \in DOMAIN scanned} |-> 0]
    /\ counter' = 0
    /\ ticket' = [i \in DOMAIN scanned |-> 0]
    /\ pc' = "parsing"
    /\ UNCHANGED <<root_dir, cursor_scan, load_result, progress, sent>>
    /\ UNCHANGED <<scan_vars, cost_vars, metrics_vars, tui_vars>>
    /\ UNCHANGED normalizer_vars

\* Faulty variant of Ticket: the value fetch_add returns.
TicketBefore(c) == c

\* main.rs:78  counter.fetch_add(1, Ordering::Relaxed) + 1
Ticket(c) == c + 1

\* main.rs:72-78, the worker of a project starts and counts itself
StartProject ==
    /\ pc = "parsing"
    /\ \E i \in DOMAIN scanned :
          /\ project_phase[i] = "idle"
          /\ project_phase' = [project_phase EXCEPT ![i] = "counted"]
          /\ ticket' = [ticket EXCEPT ![i] = Ticket(counter)]
    /\ counter' = counter + 1
    /\ UNCHANGED <<pc, root_dir, cursor_scan, session_results, parse_calls, load_result,
                   progress, sent>>
    /\ UNCHANGED <<scan_vars, cost_vars, metrics_vars, tui_vars>>
    /\ UNCHANGED normalizer_vars

\* "Parsing: {name} ({n}/{total})" of the project worker i
Parsing(i) ==
    [Progress("Parsing") EXCEPT !.status = "Parsing"]
        @@ [project |-> i, n |-> ticket[i], total |-> Len(scanned)]

\* main.rs:79-85, the worker of a project reports its progress
NotifyProject ==
    /\ pc = "parsing"
    /\ \E i \in DOMAIN scanned :
          /\ project_phase[i] = "counted"
          /\ project_phase' = [project_phase EXCEPT ![i] = "running"]
          /\ sent' = Send(sent, Parsing(i))
    /\ UNCHANGED <<pc, root_dir, cursor_scan, session_results, parse_calls, load_result,
                   counter, progress, ticket>>
    /\ UNCHANGED <<scan_vars, cost_vars, metrics_vars, tui_vars>>
    /\ UNCHANGED normalizer_vars

\* main.rs:87-97, the worker of one session handle
ParseSession ==
    /\ pc = "parsing"
    /\ \E i \in DOMAIN scanned :
          /\ project_phase[i] = "running"
          /\ \E k \in DOMAIN scanned[i].session_files :
                /\ session_results[i][k] = Pending
                /\ LET sf == scanned[i].session_files[k] IN
                   /\ session_results' =
                          [session_results EXCEPT
                              ![i][k] = Returned(ParseHandle(sf, scanned[i].id))]
                   /\ parse_calls' = [parse_calls EXCEPT ![sf.id] = @ + 1]
    /\ UNCHANGED <<pc, root_dir, cursor_scan, project_phase, counter, load_result,
                   notify_vars>>
    /\ UNCHANGED <<scan_vars, cost_vars, metrics_vars, tui_vars>>
    /\ UNCHANGED normalizer_vars

\* The sessions of the handles that returned one, in the order of the handles.
RECURSIVE CollectSessions(_)
CollectSessions(results) ==
    IF results = <<>> THEN <<>>
    ELSE (IF results[1].state = "returned" /\ results[1].outcome # None
          THEN <<results[1].outcome[1]>> ELSE <<>>)
         \o CollectSessions(Tail(results))

\* main.rs:98-99  .collect() of the session workers of a project
FinishProject ==
    /\ pc = "parsing"
    /\ \E i \in DOMAIN scanned :
          /\ project_phase[i] = "running"
          /\ \A k \in DOMAIN session_results[i] : session_results[i][k] # Pending
          /\ project_phase' = [project_phase EXCEPT ![i] = "done"]
    /\ UNCHANGED <<pc, root_dir, cursor_scan, session_results, parse_calls, counter,
                   load_result, notify_vars>>
    /\ UNCHANGED <<scan_vars, cost_vars, metrics_vars, tui_vars>>
    /\ UNCHANGED normalizer_vars

\* Faulty variant of AllWorkersDone: one finished project is enough.
SomeWorkerDone ==
    scanned = <<>> \/ \E i \in DOMAIN scanned : project_phase[i] = "done"

\* The outer collect() returns when the worker of every project has.
AllWorkersDone == \A i \in DOMAIN scanned : project_phase[i] = "done"

\* main.rs:101-104  .collect() of the project workers, in the order of scanned
\* (main.rs:99 also returns dir and sources, which metrics.rs:11 does not read)
Join ==
    /\ pc = "parsing"
    /\ AllWorkersDone
    /\ project_sessions' =
           [i \in DOMAIN scanned |-> <<scanned[i].id, CollectSessions(session_results[i])>>]
    /\ summaries' = <<>>
    /\ agg_idx' = 1
    /\ pc' = "summaries"
    /\ sent' = Send(sent, Progress("Building metrics..."))
    /\ UNCHANGED <<totals, metrics>>
    /\ UNCHANGED <<scan_vars, cost_vars, tui_vars>>
    /\ UNCHANGED <<root_dir, cursor_scan, project_phase, session_results, parse_calls,
                   counter, load_result, progress, ticket>>
    /\ UNCHANGED normalizer_vars

\* main.rs:106
ReturnLoad ==
    /\ pc = "reported"
    /\ load_result' = Some([projects |-> summaries, metrics |-> metrics[1]])
    /\ pc' = "loaded"
    /\ UNCHANGED <<root_dir, cursor_scan, project_phase, session_results, parse_calls,
                   counter, notify_vars>>
    /\ UNCHANGED <<scan_vars, cost_vars, metrics_vars, tui_vars>>
    /\ UNCHANGED normalizer_vars

\* The i-th entry of the projects directory, when it is a directory: its
\* session files have the cwd <<"/", Letter(i)>>.
ProjectDir(i, listing) == [kind |-> "dir", name |-> <<"-", Letter(i)>>, listing |-> listing]

\* Listings of a project directory: two session files; a name that is not
\* .jsonl and a session file whose metadata() fails; an entry that cannot be
\* read after a session file.
Listings(i) ==
    {<<JsonlFile(Some(<<"/", Letter(i)>>)), JsonlFile(None)>>,
     <<FileEntry("other", "file", TRUE, None),
       FileEntry("jsonl", "file", FALSE, None)>>,
     <<JsonlFile(Some(<<"/", Letter(i)>>)), FileEntry("entry_err", "err", FALSE, None)>>}

\* What the i-th entry of the projects directory can be.
RootEntries(i) ==
    {[kind |-> "entry_err"], [kind |-> "type_err"], [kind |-> "file"], ProjectDir(i, None)}
        \cup {ProjectDir(i, Some(l)) : l \in Listings(i)}

IsRootDir(n) ==
    \E f \in [1..n -> UNION {RootEntries(i) : i \in 1..n}] :
        /\ \A i \in 1..n : f[i] \in RootEntries(i)
        /\ root_dir = [status |-> "listed", entries |-> f]

\* The workspace storage of Cursor: not listable, or holding the workspace
\* of the folder <<"/", "b">> with two composers.
CursorStorages ==
    {[status |-> "unreadable"],
     [status |-> "listed",
      projects |-> <<CursorProject(1, [folder |-> <<"/", "b">>, composers |-> 2])>>]}

InitLoad ==
    /\ \/ root_dir = [status |-> "missing"]
       \/ root_dir = [status |-> "unreadable"]
       \/ \E n \in 0..MaxEntries : IsRootDir(n)
    /\ cursor_scan \in CursorStorages
    /\ pc = "scan_claude"
    /\ project_phase = <<>>
    /\ session_results = <<>>
    /\ parse_calls = <<>>
    /\ counter = 0
    /\ load_result = None
    /\ progress \in {"absent", "alive", "gone"}
    /\ sent = <<>>
    /\ ticket = <<>>
    /\ TuiIdle
    /\ ScanIdle
    /\ CostIdle
    /\ MetricsIdle
    /\ NormalizersIdle

NextLoad ==
    \/ ScanRoot \/ ScanEntry \/ ScanReturns \/ ScanCursor
    \/ MergeClaudeProject \/ StartCursorMerge \/ MergeCursorProject \/ CollectProjects
    \/ Fork \/ StartProject \/ NotifyProject \/ ParseSession \/ FinishProject \/ Join
    \/ BuildSummary \/ SortSummaries \/ AddProject \/ ReturnMetrics
    \/ ReturnLoad

SpecLoad == InitLoad /\ [][NextLoad]_vars

-----------------------------------------------------------------------------
(* Claims about load_data.                                                  *)

\* A file of a project directory on which a `?` of scanner.rs:38-43 returns.
FileScanFails(f) ==
    \/ f.kind = "entry_err"
    \/ f.kind = "jsonl" /\ f.type = "err"
    \/ f.kind = "jsonl" /\ f.type = "file" /\ ~f.metadata_ok

\* An entry of the projects directory that cannot be read (scanner.rs:27-28).
RootEntryFails(entry) == entry.kind \in {"entry_err", "type_err"}

RootEntriesRead ==
    IF root_dir.status = "listed" THEN root_dir.entries ELSE <<>>

\* The scan of the projects directory itself fails.
RootScanFails ==
    \/ root_dir.status = "unreadable"
    \/ \E i \in DOMAIN RootEntriesRead : RootEntryFails(RootEntriesRead[i])

\* A file inside a listable project directory cannot be read.
SessionFileScanFails ==
    \E i \in DOMAIN RootEntriesRead :
        /\ RootEntriesRead[i].kind = "dir"
        /\ RootEntriesRead[i].listing # None
        /\ \E k \in DOMAIN RootEntriesRead[i].listing[1] :
              FileScanFails(RootEntriesRead[i].listing[1][k])

\* The session files of the listable project directories.
ListedHandles ==
    UNION {{[project |-> RootEntriesRead[i].name, k |-> k] :
               k \in {m \in DOMAIN RootEntriesRead[i].listing[1] :
                         /\ RootEntriesRead[i].listing[1][m].kind = "jsonl"
                         /\ RootEntriesRead[i].listing[1][m].type = "file"}} :
           i \in {j \in DOMAIN RootEntriesRead :
                     /\ RootEntriesRead[j].kind = "dir"
                     /\ RootEntriesRead[j].listing # None}}

\* The composers of the Cursor storage, when it can be listed.
ListedCursorHandles ==
    IF cursor_scan.status = "listed"
    THEN UNION {{cursor_scan.projects[i].session_files[k].id :
                    k \in DOMAIN cursor_scan.projects[i].session_files} :
                i \in DOMAIN cursor_scan.projects}
    ELSE {}

\* The handles of the input that a normalizer can read.
ReadableHandles ==
    {id \in ListedHandles : ~ParseFails(SessionFile(id, CLAUDE))}
        \cup {id \in ListedCursorHandles : ~ParseFails(SessionFile(id, CURSOR))}

\* The session ids load_data hands to the aggregation.
LoadedIds ==
    UNION {{project_sessions[i][2][k].session_id : k \in DOMAIN project_sessions[i][2]} :
           i \in DOMAIN project_sessions}

LoadFinished == pc \in {"failed", "loaded"}

RECURSIVE SessionsOfHandles(_, _)
SessionsOfHandles(session_files, project_id) ==
    IF session_files = <<>> THEN <<>>
    ELSE (IF ParseFails(session_files[1]) THEN <<>>
          ELSE <<LoadedSession(session_files[1], project_id)>>)
         \o SessionsOfHandles(Tail(session_files), project_id)

Aggregating == pc \in {"summaries", "global", "reported", "loaded"}

\* C17: in load_data, under every interleaving of the project workers and the
\* session workers, build_project_summaries starts only after every worker
\* has returned; every session handle is normalized at most once, and exactly
\* once by then; every session collected for a project carries the id of
\* that project and comes from one of its handles; and what is collected is
\* determined by the scanned projects alone.
C17_ForkJoin ==
    /\ (pc = "parsing" \/ Aggregating) =>
          \A id \in DOMAIN parse_calls : parse_calls[id] <= 1
    /\ Aggregating =>
          /\ \A i \in DOMAIN scanned :
                /\ project_phase[i] = "done"
                /\ \A k \in DOMAIN scanned[i].session_files :
                      /\ session_results[i][k].state = "returned"
                      /\ parse_calls[scanned[i].session_files[k].id] = 1
          /\ counter = Len(scanned)
          /\ DOMAIN project_sessions = DOMAIN scanned
          /\ \A i \in DOMAIN project_sessions :
                /\ project_sessions[i][1] = scanned[i].id
                /\ \A k \in DOMAIN project_sessions[i][2] :
                      /\ project_sessions[i][2][k].project_id = scanned[i].id
                      /\ \E h \in DOMAIN scanned[i].session_files :
                            scanned[i].session_files[h].id
                                = project_sessions[i][2][k].session_id
                /\ project_sessions[i][2]
                      = SessionsOfHandles(scanned[i].session_files, scanned[i].id)

\* The join of two projects, one of which has handles of both sources: all
\* their workers returned, in some order, and one session was left out.
C17_Witness ==
    /\ pc = "summaries"
    /\ agg_idx = 1
    /\ Len(scanned) = 2
    /\ \E i \in DOMAIN scanned :
          /\ Len(scanned[i].session_files) >= 3
          /\ Len(project_sessions[i][2]) = 2
    /\ \A i \in DOMAIN scanned : project_sessions[i][2] # <<>>

\* The positions in sent of the "Parsing: name (n/total)" messages.
ParsingSent == {k \in DOMAIN sent : sent[k].status = "Parsing"}

BuildingSent == {k \in DOMAIN sent : sent[k].status = "Building metrics..."}

\* C25: under every interleaving of the project workers, with a sender every
\* project sends one "Parsing: name (n/total)" message, never two; the n are
\* pairwise distinct and, once all are sent, exactly 1..total; all of them
\* are sent before "Building metrics..."; a worker that has counted itself
\* can always send, whether the receiver is alive or gone, and no send makes
\* load_data fail; without a sender nothing is sent.
C25_ProgressCounting ==
    /\ progress = "absent" => sent = <<>>
    /\ \A k, m \in ParsingSent :
          /\ sent[k].n \in 1..sent[k].total
          /\ sent[k].total = Len(scanned)
          /\ k # m => sent[k].project # sent[m].project /\ sent[k].n # sent[m].n
    /\ \A k \in ParsingSent : \A b \in BuildingSent : k < b
    /\ (Aggregating /\ progress # "absent") =>
          /\ \A i \in DOMAIN scanned : \E k \in ParsingSent : sent[k].project = i
          /\ {sent[k].n : k \in ParsingSent} = 1..Len(scanned)
          /\ Cardinality(BuildingSent) = 1
    /\ (pc = "parsing" /\ \E i \in DOMAIN scanned : project_phase[i] = "counted")
          => ENABLED NotifyProject
    /\ pc = "failed" => ParsingSent = {}

\* Two project workers sent their messages in the other order than they
\* counted, to a receiver that was gone, and load_data returned Ok.
C25_Witness ==
    /\ pc = "loaded"
    /\ progress = "gone"
    /\ load_result # Err(LoadError)
    /\ \E k, m \in ParsingSent :
          /\ k < m
          /\ sent[k].n = 2
          /\ sent[m].n = 1
          /\ ~sent[k].delivered

-----------------------------------------------------------------------------
(* parse_session_file on a log with administrative records                 *)
(* (parser.rs:9, 43-45), and then on the same log without them.            *)

IsSkipped(line) ==
    ParseLine(line) # None /\ ParseLine(line)[1].event_type \in SKIP_TYPES

IsKept(line) == ~IsSkipped(line)

\* The content with every record of a type of SKIP_TYPES removed.
WithoutSkipped(content) == SelectSeq(content, IsKept)

\* parse_session_file called on the content without its administrative
\* records: the first ParsedSession is kept for comparison.
ParseUnskipped ==
    /\ pc = "done"
    /\ first_result = None
    /\ WithoutSkipped(raw) # raw
    /\ first_result' = result
    /\ raw' = WithoutSkipped(raw)
    /\ pc' = "scan"
    /\ line_idx' = 1
    /\ user_events' = <<>>
    /\ assistant_by_id' = <<>>
    /\ assistant_no_id' = <<>>
    /\ all_events' = <<>>
    /\ ev_idx' = 1
    /\ cwd' = ""
    /\ duration_ms' = 0
    /\ started_at' = EmptyString
    /\ last_active' = EmptyString
    /\ messages' = <<>>
    /\ tokens' = TokenTotalsZero
    /\ model' = ""
    /\ result' = None
    /\ tool_usage' = <<>>
    /\ lines_added' = 0
    /\ lines_removed' = 0
    /\ file_contributions' = <<>>
    /\ UNCHANGED cursor_vars
    /\ UNCHANGED pipeline_vars

\* Administrative records of the three types, each with a cwd, a timestamp
\* before or after every other record's, a turn duration and a user or an
\* assistant message with usage.
SkippedRecords ==
    {RawEvent("progress", Some("turn_duration"), Some("/admin"), None, Some(<<0>>),
              Some(RawMessage("user", None, None, None)), Some(7)),
     RawEvent("queue-operation", None, Some("/admin"), None, Some(<<3>>),
              Some(RawMessage("assistant", Some("m3"), Some("claude-opus-4"),
                              Some(TokenUsage(Some(1), Some(2), Some(4), None)))), None),
     RawEvent("file-history-snapshot", None, None, None, Some(<<3>>), None, None)}

\* The records that are kept: a user record with cwd and timestamp, two
\* assistant records with different message ids and no timestamp, and a
\* turn duration.
KeptRecords ==
    {RawEvent("user", None, Some("/work"), None, Some(<<1>>),
              Some(RawMessage("user", None, None, None)), None),
     RawEvent("system", Some("turn_duration"), None, None, Some(<<2>>), None, Some(5))}
    \cup {RawEvent("assistant", None, None, None, None,
                   Some(RawMessage("assistant", id, ModelOf(id), None)), None) :
             id \in {Some("m1"), Some("m2")}}

\* raw is a file of n records, administrative or not.
IsAdministeredFile(n) ==
    \E f \in [1..n -> SkippedRecords \cup KeptRecords] :
        raw = [i \in 1..n |-> JsonLine(WithUuid(f[i], i))]

InitSkip ==
    /\ \E n \in 1..MaxLines : IsAdministeredFile(n)
    /\ ParserStart
    /\ first_result = None
    /\ db_rows = <<>>
    /\ bubbles = <<>>
    /\ bubble_idx = 1
    /\ composer_created_at = EmptyString
    /\ start_time = None
    /\ PipelineIdle

NextSkip == ScanLine \/ MergeAndSort \/ FoldEvent \/ ReturnSession \/ ParseUnskipped

SpecSkip == InitSkip /\ [][NextSkip]_vars

\* C21: the ParsedSession of a log equals the ParsedSession of the same log
\* without its records of type progress, queue-operation and
\* file-history-snapshot, whatever cwd, timestamp, duration or message
\* those records carry.
C21_SkippedRemovedSameResult ==
    (pc = "done" /\ first_result # None) => first_result[1] = result[1]

-----------------------------------------------------------------------------
(* Statements about the code blocks build_parsed_session counts, in terms  *)
(* of the rows read.                                                        *)

AssistantRows ==
    {i \in DOMAIN db_rows : db_rows[i].bubble_type = Some(BUBBLE_ASSISTANT)}

\* The places <<i, k>> of the code blocks with content in the assistant bubbles.
CodeBlocksRead ==
    UNION {{<<i, k>> : k \in {n \in DOMAIN UnwrapOr(db_rows[i].code_blocks, <<>>) :
                                 db_rows[i].code_blocks[1][n].content # None}} :
           i \in AssistantRows}

CodeBlockAt(place) == db_rows[place[1]].code_blocks[1][place[2]]

\* The path of a code block: _fsPath when present, else path, else none.
PathOfBlock(cb) ==
    IF cb.uri = None THEN ""
    ELSE IF cb.uri[1].fs_path # None THEN cb.uri[1].fs_path[1]
    ELSE IF cb.uri[1].path # None THEN cb.uri[1].path[1] ELSE ""

CodeBlocksWithPath == {place \in CodeBlocksRead : PathOfBlock(CodeBlockAt(place)) # ""}

\* The names Cursor gives its tools, and one it does not.
CursorToolNames ==
    {"edit_file", "create_file", "run_terminal_command", "read_file", "list_directory",
     "file_search", "search_files", "codebase_search", "grep_search", "mcp_tool"}

ClaimedToolName ==
    [name \in CursorToolNames |->
        IF name = "edit_file" THEN "Edit"
        ELSE IF name = "create_file" THEN "Write"
        ELSE IF name = "run_terminal_command" THEN "Bash"
        ELSE IF name = "read_file" THEN "Read"
        ELSE IF name \in {"list_directory", "file_search"} THEN "Glob"
        ELSE IF name \in {"search_files", "codebase_search", "grep_search"} THEN "Grep"
        ELSE name]

\* The counter of a tool name in tool_usage, 0 when the name is not a key.
ToolCount(name) == IF name \in DOMAIN tool_usage THEN tool_usage[name] ELSE 0

\* C22 (as stated): in a session read from SQLite every tool invocation of an
\* assistant bubble, that is every code block it wrote, is counted in
\* tool_usage under the normalized name of edit_file.
C22_EveryInvocationCounted ==
    pc = "done" => ToolCount(normalize_tool("edit_file")) = Cardinality(CodeBlocksRead)

\* C22 (amended): normalize_tool maps the names of Cursor as listed and leaves
\* any other name unchanged; in a session read from SQLite tool_usage has no
\* other key than Edit, and its counter is the number of code blocks of
\* assistant bubbles that have content and a non-empty file path.
C22_CodeBlocksWithPathCounted ==
    /\ \A name \in CursorToolNames : normalize_tool(name) = ClaimedToolName[name]
    /\ pc = "done" =>
          /\ DOMAIN tool_usage \subseteq {"Edit"}
          /\ "Edit" \in DOMAIN tool_usage <=> CodeBlocksWithPath # {}
          /\ ToolCount("Edit") = Cardinality(CodeBlocksWithPath)
          /\ result[1].tool_usage = tool_usage

\* Two assistant bubbles whose code blocks name a file were counted as two
\* edits, and a code block without file path was not.
C22_Witness ==
    /\ pc = "done"
    /\ ToolCount("Edit") = 2
    /\ Cardinality({place[1] : place \in CodeBlocksWithPath}) = 2
    /\ CodeBlocksRead # CodeBlocksWithPath

-----------------------------------------------------------------------------
(* Both normalizers on sessions that write files, with and without a path. *)

InitContrib ==
    \/ /\ \E n \in 1..MaxLines : IsFile(n, PathShapes)
       /\ ParserStart
       /\ first_result = None
       /\ db_rows = <<>>
       /\ bubbles = <<>>
       /\ bubble_idx = 1
       /\ composer_created_at = EmptyString
       /\ start_time = None
       /\ PipelineIdle
    \/ /\ \E n \in 1..MaxBubbles : IsRows(n, CodeBubbles)
       /\ composer_created_at = EmptyString
       /\ pc = "load"
       /\ bubbles = <<>>
       /\ bubble_idx = 1
       /\ start_time = None
       /\ duration_ms = MsZero
       /\ started_at = EmptyString
       /\ last_active = EmptyString
       /\ messages = <<>>
       /\ tokens = TokenTotalsZero
       /\ result = None
       /\ raw = <<>>
       /\ line_idx = 1
       /\ user_events = <<>>
       /\ assistant_by_id = <<>>
       /\ assistant_no_id = <<>>
       /\ all_events = <<>>
       /\ ev_idx = 1
       /\ cwd = ""
       /\ model = ""
       /\ first_result = None
       /\ tool_usage = <<>>
       /\ lines_added = 0
       /\ lines_removed = 0
       /\ file_contributions = <<>>
       /\ PipelineIdle

NextContrib ==
    \/ ScanLine \/ MergeAndSort \/ FoldEvent \/ ReturnSession
    \/ LoadBubbles \/ BuildBubble \/ ReturnCursorSession

SpecContrib == InitContrib /\ [][NextContrib]_vars

SumAdded ==
    SumOver(DOMAIN file_contributions,
            [fp \in DOMAIN file_contributions |-> file_contributions[fp].added])

SumRemoved ==
    SumOver(DOMAIN file_contributions,
            [fp \in DOMAIN file_contributions |-> file_contributions[fp].removed])

\* The Write and Edit invocations of the log that add to the line counters.
CountedInvocations ==
    ToolBlocks("Edit") \cup {place \in ToolBlocks("Write") : InputAt(place).content # None}

InvocationLines(place) ==
    LineCountOf(InputAt(place).content) + LineCountOf(InputAt(place).new_string)
        + LineCountOf(InputAt(place).old_string)

EveryoneNamesAPath ==
    /\ \A place \in CountedInvocations :
          InputAt(place).file_path \notin {None, Some("")}
    /\ \A place \in CodeBlocksRead : PathOfBlock(CodeBlockAt(place)) # ""

ContributionsComplete == SumAdded = lines_added /\ SumRemoved = lines_removed

\* C23 (as stated): in every ParsedSession the contributions of the files sum
\* to at most lines_added and lines_removed, and to exactly these when and
\* only when every counted Write or Edit invocation, or code block, carries a
\* non-empty file path.
C23_CompleteIffEveryPathNonEmpty ==
    pc = "done" =>
        /\ SumAdded <= lines_added
        /\ SumRemoved <= lines_removed
        /\ ContributionsComplete <=> EveryoneNamesAPath

\* C23 (amended): in every ParsedSession the contributions of the files sum
\* to at most lines_added and lines_removed; they sum to exactly these when
\* every counted invocation or code block carries a non-empty file path, and
\* more precisely exactly when every one that is not entered under a path (a
\* Write or Edit without a file_path string, a code block without a non-empty
\* path) has no lines.  A Write or Edit whose file_path is the empty string is
\* entered under the empty path.
C23_CompleteIffUnkeyedLinesZero ==
    pc = "done" =>
        /\ SumAdded <= lines_added
        /\ SumRemoved <= lines_removed
        /\ EveryoneNamesAPath => ContributionsComplete
        /\ ContributionsComplete <=>
              /\ \A place \in CountedInvocations :
                    InputAt(place).file_path = None => InvocationLines(place) = 0
              /\ \A place \in CodeBlocksRead \ CodeBlocksWithPath :
                    LineCountOf(CodeBlockAt(place).content) = 0
        /\ result[1].file_contributions = file_contributions
        /\ result[1].lines_added = lines_added
        /\ result[1].lines_removed = lines_removed

\* An Edit of the empty path is entered under it: the contributions are
\* complete although a path is empty.
C23_Witness ==
    /\ pc = "done"
    /\ "" \in DOMAIN file_contributions
    /\ file_contributions[""] = FileContribution(3, 1)
    /\ ContributionsComplete
    /\ ~EveryoneNamesAPath

-----------------------------------------------------------------------------
(* Statements about the duration build_parsed_session accumulates.         *)

\* The sign of hi * Limb + lo.
MsNonNegative(m) == m.hi + (m.lo \div Limb) >= 0

\* C24: the duration_ms of a session read from SQLite is never negative,
\* whatever the bubbles and the creation time are, also when one of start and
\* end is an absolute epoch value and the other an offset resolved against
\* the creation time.
C24_DurationNonNegative ==
    pc = "done" => MsNonNegative(result[1].duration_ms)

(***************************************************************************)
(* The terminal interface: run_tui, App and the key handlers.              *)
(*                                                                         *)
(* app is the App of run_tui, channel the mpsc channel between the         *)
(* background thread and the main loop, loader the background thread.  pc  *)
(* is the position of the main loop: "poll" before poll_load, "events"     *)
(* before handle_events, "quit" after the loop.  Names, paths and the      *)
(* search query are sequences of character codes, so that the ordering of  *)
(* the Name column and the case folding are computed.  The theme and the   *)
(* two TableState fields are written by the handlers and read only by the  *)
(* drawing code; they are left out, like terminal.draw itself.             *)
(***************************************************************************)

\* The longest search query typed.
MaxQuery == 2

\* tui_app.rs:8-13, in the order of declaration
Views == <<"Dashboard", "ProjectList", "ProjectDetail", "SessionDetail">>

ViewRank(v) == CHOOSE i \in DOMAIN Views : Views[i] = v

\* tui_app.rs:38-49
NextColumn(col) ==
    CASE col = "Name" -> "Sessions"
      [] col = "Sessions" -> "Messages"
      [] col = "Messages" -> "Tokens"
      [] col = "Tokens" -> "Lines"
      [] col = "Lines" -> "Cost"
      [] col = "Cost" -> "LastActive"
      [] col = "LastActive" -> "Name"

\* char::to_lowercase on the code of an ASCII character
LowerCode(c) == IF c \in 65..90 THEN c + 32 ELSE c

\* str::to_lowercase on a sequence of character codes
lowercase(s) == [i \in DOMAIN s |-> LowerCode(s[i])]

\* The code of the characters that the keyboard of the model types.
CodeOf(c) ==
    CASE c = "a" -> 97 [] c = "b" -> 98 [] c = "B" -> 66 [] c = "/" -> 47
      [] c = "q" -> 113 [] c = "j" -> 106 [] c = "k" -> 107 [] c = "l" -> 108
      [] c = "h" -> 104 [] c = "s" -> 115 [] c = "t" -> 116 [] c = "u" -> 117
      [] c = "d" -> 100 [] c = "g" -> 103 [] c = "G" -> 71
      [] c = "1" -> 49 [] c = "2" -> 50 [] c = "3" -> 51 [] c = "4" -> 52

Text(chars) == [i \in DOMAIN chars |-> CodeOf(chars[i])]

\* A session as the interface reads it: the length of its message list.
TuiSession(n) == [messages |-> [i \in 1..n |-> "message"]]

\* models.rs ProjectSummary, the fields that tui_app.rs and tui_events.rs read
TuiProject(name, message_counts, total, added, dollars, active) ==
    [name |-> Text(name),
     path |-> Text(<<"/">> \o name),
     session_count |-> Len(message_counts),
     message_count |-> SumOver(DOMAIN message_counts, message_counts),
     total_tokens |-> total,
     lines_added |-> added,
     lines_removed |-> 0,
     cost |-> dollars,
     last_active |-> active,
     sessions |-> [i \in DOMAIN message_counts |-> TuiSession(message_counts[i])]]

\* The projects that a finished load can deliver, in the order of
\* build_project_summaries (metrics.rs:83: last_active descending).  The
\* projects differ in the number of sessions, the columns order them
\* differently, and two of them tie on the Lines column.
Catalogue ==
    <<TuiProject(<<"a", "b">>, <<2, 1, 1>>, 10, 5, 2, <<4>>),
      TuiProject(<<"B">>, <<1>>, 30, 5, 3, <<3>>),
      TuiProject(<<"a">>, <<1, 2>>, 20, 1, 1, <<2>>),
      TuiProject(<<"b", "a">>, <<1>>, 5, 7, 4, <<1>>)>>

\* tui_app.rs:16-19
ProgressMessage(status) == [kind |-> "Progress", status |-> status]

Done(projects, m) == [kind |-> "Done", projects |-> projects, metrics |-> m]

\* models.rs GlobalMetrics, by its project count
TuiMetrics(projects) == [total_projects |-> Len(projects)]

\* tui_app.rs:123-146
AppLoading ==
    [projects |-> <<>>,
     filtered_projects |-> <<>>,
     metrics |-> TuiMetrics(<<>>),
     view |-> "Dashboard",
     view_stack |-> <<>>,
     input_mode |-> "Normal",
     search_query |-> <<>>,
     sort_column |-> "LastActive",
     selected_project |-> 0,
     selected_session |-> 0,
     should_quit |-> FALSE,
     message_scroll |-> 0,
     loading |-> TRUE,
     loading_status |-> "Starting...",
     load_receiver |-> TRUE]

\* (0..n).collect()
Indices(n) == [i \in 1..n |-> i - 1]

\* usize::saturating_sub
saturating_sub(x, y) == IF x >= y THEN x - y ELSE 0

\* Vec::get, on an index that counts from zero
Get(seq, i) == IF i + 1 \in DOMAIN seq THEN Some(seq[i + 1]) ELSE None

\* Faulty variant of navigate_to: the view that is entered is pushed.
navigate_to_pushing_target(a, view) ==
    [a EXCEPT !.view_stack = Append(a.view_stack, view), !.view = view]

\* tui_app.rs:177-180
navigate_to(a, view) ==
    [a EXCEPT !.view_stack = Append(a.view_stack, a.view), !.view = view]

\* tui_app.rs:182-187
go_back(a) ==
    IF a.view_stack = <<>> THEN a
    ELSE [a EXCEPT !.view = a.view_stack[Len(a.view_stack)],
                   !.view_stack = SubSeq(a.view_stack, 1, Len(a.view_stack) - 1),
                   !.message_scroll = 0]

\* tui_app.rs:189-193
current_project(a) ==
    LET idx == Get(a.filtered_projects, a.selected_project)
    IN  IF IsSome(idx) THEN Get(a.projects, idx[1]) ELSE None

InSessionTable(a) == a.view \in {"ProjectDetail", "SessionDetail"}

\* tui_app.rs:195-211
move_up(a) ==
    CASE a.view = "ProjectList" ->
           IF a.selected_project > 0
           THEN [a EXCEPT !.selected_project = a.selected_project - 1] ELSE a
      [] InSessionTable(a) ->
           IF a.selected_session > 0
           THEN [a EXCEPT !.selected_session = a.selected_session - 1] ELSE a
      [] OTHER -> a

\* tui_app.rs:213-233
move_down(a) ==
    CASE a.view = "ProjectList" ->
           LET max == saturating_sub(Len(a.filtered_projects), 1)
           IN  IF a.selected_project < max
               THEN [a EXCEPT !.selected_project = a.selected_project + 1] ELSE a
      [] InSessionTable(a) ->
           LET proj == current_project(a)
           IN  IF IsSome(proj)
                  /\ a.selected_session < saturating_sub(Len(proj[1].sessions), 1)
               THEN [a EXCEPT !.selected_session = a.selected_session + 1] ELSE a
      [] OTHER -> a

\* for _ in 0..10
TenTimes(step(_), a) == step(step(step(step(step(step(step(step(step(step(a))))))))))

\* tui_app.rs:235-239
page_up(a) == TenTimes(move_up, a)

\* tui_app.rs:241-245
page_down(a) == TenTimes(move_down, a)

\* tui_app.rs:247-259
go_home(a) ==
    CASE a.view = "ProjectList" -> [a EXCEPT !.selected_project = 0]
      [] InSessionTable(a) -> [a EXCEPT !.selected_session = 0]
      [] OTHER -> a

\* tui_app.rs:261-277
go_end(a) ==
    CASE a.view = "ProjectList" ->
           [a EXCEPT !.selected_project = saturating_sub(Len(a.filtered_projects), 1)]
      [] InSessionTable(a) ->
           LET proj == current_project(a)
           IN  IF IsSome(proj)
               THEN [a EXCEPT !.selected_session = saturating_sub(Len(proj[1].sessions), 1)]
               ELSE a
      [] OTHER -> a

HasSessions(a) == IsSome(current_project(a)) /\ current_project(a)[1].sessions # <<>>

\* tui_app.rs:279-301
enter_selection(a) ==
    CASE a.view = "Dashboard" -> navigate_to(a, "ProjectList")
      [] a.view = "ProjectList" ->
           IF IsSome(current_project(a))
           THEN navigate_to([a EXCEPT !.selected_session = 0], "ProjectDetail")
           ELSE a
      [] a.view = "ProjectDetail" ->
           IF HasSessions(a)
           THEN navigate_to([a EXCEPT !.message_scroll = 0], "SessionDetail")
           ELSE a
      [] OTHER -> a

\* tui_app.rs:303-307
scroll_messages_up(a) ==
    IF a.message_scroll > 0 THEN [a EXCEPT !.message_scroll = a.message_scroll - 1] ELSE a

\* tui_app.rs:309-313
scroll_messages_down(a, max_messages) ==
    IF a.message_scroll + 1 < max_messages
    THEN [a EXCEPT !.message_scroll = a.message_scroll + 1] ELSE a

\* tui_app.rs:352-366: the comparator says that project x goes before project y
Before(col, px, py) ==
    CASE col = "Name" -> StrLt(lowercase(px.name), lowercase(py.name))
      [] col = "Sessions" -> px.session_count > py.session_count
      [] col = "Messages" -> px.message_count > py.message_count
      [] col = "Tokens" -> px.total_tokens > py.total_tokens
      [] col = "Lines" ->
           px.lines_added + px.lines_removed > py.lines_added + py.lines_removed
      [] col = "Cost" -> px.cost > py.cost
      [] col = "LastActive" -> StrLt(py.last_active, px.last_active)

\* slice::sort_by is stable: an index goes in front of the first one it is before
RECURSIVE InsertIndex(_, _, _, _)
InsertIndex(sorted, x, projects, col) ==
    IF sorted = <<>> THEN <<x>>
    ELSE IF Before(col, projects[x + 1], projects[sorted[1] + 1])
         THEN <<x>> \o sorted
         ELSE <<sorted[1]>> \o InsertIndex(Tail(sorted), x, projects, col)

RECURSIVE SortIndices(_, _, _, _)
SortIndices(sorted, rest, projects, col) ==
    IF rest = <<>> THEN sorted
    ELSE SortIndices(InsertIndex(sorted, rest[1], projects, col), Tail(rest), projects, col)

\* tui_app.rs:346-368
apply_sort(a) ==
    [a EXCEPT !.filtered_projects =
                  SortIndices(<<>>, a.filtered_projects, a.projects, a.sort_column)]

\* tui_app.rs:323-326
Matches(p, query) ==
    contains(lowercase(p.name), query) \/ contains(lowercase(p.path), query)

\* tui_app.rs:315-339
apply_filter(a) ==
    LET query == lowercase(a.search_query)
        all == Indices(Len(a.projects))
        filtered == IF query = <<>> THEN all
                    ELSE SelectSeq(all, LAMBDA i : Matches(a.projects[i + 1], query))
    IN  [apply_sort([a EXCEPT !.filtered_projects = filtered])
            EXCEPT !.selected_project = 0]

\* tui_app.rs:341-344
cycle_sort(a) == apply_sort([a EXCEPT !.sort_column = NextColumn(a.sort_column)])

\* KeyCode::Char(c): the keys of the model that carry a character
CharKeys ==
    {"a", "B", "/", "q", "j", "k", "l", "h", "s", "t", "u", "d", "g", "G",
     "1", "2", "3", "4"}

\* The other key codes of the model; F1 stands for a key no handler names.
NamedKeys == {"Esc", "Enter", "Backspace", "Up", "Down", "Left", "Right", "F1"}

\* tui_events.rs:30-50
handle_search_input(a, code) ==
    CASE code = "Esc" ->
           apply_filter([a EXCEPT !.input_mode = "Normal", !.search_query = <<>>])
      [] code = "Enter" -> [a EXCEPT !.input_mode = "Normal"]
      [] code = "Backspace" ->
           apply_filter([a EXCEPT !.search_query =
                             SubSeq(a.search_query, 1, Len(a.search_query) - 1)])
      [] code \in CharKeys ->
           apply_filter([a EXCEPT !.search_query = Append(a.search_query, CodeOf(code))])
      [] OTHER -> a

\* tui_events.rs:61-65
msg_count(a) ==
    LET proj == current_project(a)
        session == IF IsSome(proj) THEN Get(proj[1].sessions, a.selected_session)
                   ELSE None
    IN  IF IsSome(session) THEN Len(session[1].messages) ELSE 0

scroll_down_in(a) == scroll_messages_down(a, msg_count(a))

\* tui_events.rs:54-114
handle_session_detail_input(a, code) ==
    CASE code = "q" -> [a EXCEPT !.should_quit = TRUE]
      [] code \in {"j", "Down"} -> scroll_down_in(a)
      [] code \in {"k", "Up"} -> scroll_messages_up(a)
      [] code = "d" -> TenTimes(scroll_down_in, a)
      [] code = "u" -> TenTimes(scroll_messages_up, a)
      [] code = "g" -> [a EXCEPT !.message_scroll = 0]
      [] code = "G" -> [a EXCEPT !.message_scroll = saturating_sub(msg_count(a), 1)]
      [] code \in {"Esc", "Left", "Backspace", "h"} -> go_back(a)
      [] OTHER -> a

\* tui_events.rs:132-137
OpenSearch(a) ==
    IF a.view = "ProjectList"
    THEN [a EXCEPT !.input_mode = "Search", !.search_query = <<>>]
    ELSE a

\* tui_events.rs:157-178
JumpTo(a, view) ==
    LET allowed == CASE view = "ProjectDetail" -> IsSome(current_project(a))
                     [] view = "SessionDetail" -> HasSessions(a)
                     [] OTHER -> TRUE
    IN  IF allowed THEN [a EXCEPT !.view = view, !.view_stack = <<>>] ELSE a

\* tui_events.rs:52-181
handle_normal_input(a, code) ==
    IF a.view = "SessionDetail" THEN handle_session_detail_input(a, code)
    ELSE CASE code = "q" -> [a EXCEPT !.should_quit = TRUE]
           [] code \in {"j", "Down"} -> move_down(a)
           [] code \in {"k", "Up"} -> move_up(a)
           [] code \in {"Enter", "Right", "l"} -> enter_selection(a)
           [] code \in {"Esc", "Left", "Backspace", "h"} -> go_back(a)
           [] code = "/" -> OpenSearch(a)
           [] code = "s" -> cycle_sort(a)
           [] code = "u" -> page_up(a)
           [] code = "d" -> page_down(a)
           [] code = "g" -> go_home(a)
           [] code = "G" -> go_end(a)
           [] code = "1" -> JumpTo(a, "Dashboard")
           [] code = "2" -> JumpTo(a, "ProjectList")
           [] code = "3" -> JumpTo(a, "ProjectDetail")
           [] code = "4" -> JumpTo(a, "SessionDetail")
           [] OTHER -> a

\* What event::poll and event::read deliver within 50 ms: nothing, Ctrl+C or
\* the press of a key.
NoEvent == [kind |-> "none"]

CtrlC == [kind |-> "ctrl_c"]

Press(code) == [kind |-> "press", code |-> code]

\* tui_events.rs:8-28
handle_events_on(a, event) ==
    CASE event.kind = "none" -> a
      [] event.kind = "ctrl_c" -> [a EXCEPT !.should_quit = TRUE]
      [] event.kind = "press" ->
           IF a.input_mode = "Search" THEN handle_search_input(a, event.code)
           ELSE handle_normal_input(a, event.code)

\* tui_app.rs:155-173: the messages are taken until the queue is empty or Done
RECURSIVE Drain(_, _)
Drain(a, queue) ==
    IF queue = <<>> THEN [app |-> a, queue |-> queue, dropped |-> FALSE]
    ELSE LET msg == Head(queue)
         IN  IF msg.kind = "Progress"
             THEN Drain([a EXCEPT !.loading_status = msg.status], Tail(queue))
             ELSE [app |-> [a EXCEPT !.projects = msg.projects,
                                     !.filtered_projects = Indices(Len(msg.projects)),
                                     !.metrics = msg.metrics,
                                     !.loading = FALSE,
                                     !.load_receiver = FALSE],
                   queue |-> <<>>, dropped |-> TRUE]

\* tui_app.rs:149-175 poll_load, then terminal.draw
PollLoad ==
    /\ pc = "poll"
    /\ IF app.loading /\ app.load_receiver
       THEN LET polled == Drain(app, channel.queue)
            IN  /\ app' = polled.app
                /\ channel' = [channel EXCEPT !.queue = polled.queue,
                                              !.receiver = ~polled.dropped]
       ELSE UNCHANGED <<app, channel>>
    /\ pc' = "events"
    /\ UNCHANGED loader
    /\ UNCHANGED <<scan_vars, cost_vars, metrics_vars, load_vars>>
    /\ UNCHANGED normalizer_vars

\* The characters typed into the search box, and the keys pressed otherwise:
\* one key of every arm of handle_normal_input, F1 for the arm of the rest.
TypedKeys == {"a", "B"}

PressedKeys ==
    {"q", "j", "k", "Enter", "Esc", "/", "s", "u", "d", "g", "G",
     "1", "2", "3", "4", "F1"}

KeysIn(a) ==
    IF a.input_mode = "Search"
    THEN {"Esc", "Enter", "Backspace", "F1"}
             \cup IF Len(a.search_query) < MaxQuery THEN TypedKeys ELSE {}
    ELSE PressedKeys

\* tui_events.rs:8-28 handle_events, then main.rs:158-160
HandleEvents ==
    /\ pc = "events"
    /\ \E event \in {NoEvent, CtrlC} \cup {Press(code) : code \in KeysIn(app)} :
           app' = handle_events_on(app, event)
    /\ pc' = IF app'.should_quit THEN "quit" ELSE "poll"
    /\ UNCHANGED <<channel, loader>>
    /\ UNCHANGED <<scan_vars, cost_vars, metrics_vars, load_vars>>
    /\ UNCHANGED normalizer_vars

\* What load_data returned in the background thread
IsOk(outcome) == "projects" \in DOMAIN outcome[1]

\* main.rs:48-106 and 144-147: the messages of the thread, in the order sent
Script(outcome) ==
    IF ~IsOk(outcome) THEN <<ProgressMessage("Scanning Claude projects...")>>
    ELSE <<ProgressMessage("Scanning Claude projects..."),
           ProgressMessage("Scanning Cursor workspaces..."),
           ProgressMessage("Merging projects...")>>
         \o [i \in DOMAIN outcome[1].projects |-> ProgressMessage("Parsing")]
         \o <<ProgressMessage("Building metrics..."),
              Done(outcome[1].projects, outcome[1].metrics)>>

\* Sender::send: the message is queued unless the receiver is gone
LoaderSend ==
    /\ loader # <<>>
    /\ loader.running
    /\ loader.at < Len(Script(loader.outcome))
    /\ loader' = [loader EXCEPT !.at = loader.at + 1]
    /\ channel' = IF channel.receiver
                  THEN [channel EXCEPT
                            !.queue = Append(channel.queue,
                                             Script(loader.outcome)[loader.at + 1])]
                  ELSE channel
    /\ UNCHANGED <<app, pc>>
    /\ UNCHANGED <<scan_vars, cost_vars, metrics_vars, load_vars>>
    /\ UNCHANGED normalizer_vars

\* main.rs:148: the closure ends and both senders are dropped
LoaderExit ==
    /\ loader # <<>>
    /\ loader.running
    /\ loader.at = Len(Script(loader.outcome))
    /\ loader' = [loader EXCEPT !.running = FALSE]
    /\ channel' = [channel EXCEPT !.connected = FALSE]
    /\ UNCHANGED <<app, pc>>
    /\ UNCHANGED <<scan_vars, cost_vars, metrics_vars, load_vars>>
    /\ UNCHANGED normalizer_vars

\* The results of load_data: an error, or the first projects of the catalogue
LoadOutcomes ==
    {Err(LoadError)}
        \cup {Some([projects |-> SubSeq(Catalogue, 1, n),
                    metrics |-> TuiMetrics(SubSeq(Catalogue, 1, n))]) :
                  n \in 0..MaxProjects}

\* main.rs:142-150
InitTui ==
    /\ app = AppLoading
    /\ channel = [queue |-> <<>>, connected |-> TRUE, receiver |-> TRUE]
    /\ \E outcome \in LoadOutcomes :
           loader = [outcome |-> outcome, at |-> 0, running |-> TRUE]
    /\ pc = "poll"
    /\ ScanIdle
    /\ CostIdle
    /\ MetricsIdle
    /\ LoadIdle
    /\ NormalizersIdle

NextTui ==
    \/ PollLoad
    \/ HandleEvents
    \/ LoaderSend
    \/ LoaderExit

SpecTui == InitTui /\ [][NextTui]_vars

\* The main loop keeps turning and the thread keeps running.
SpecTuiFair ==
    /\ SpecTui
    /\ WF_vars(PollLoad)
    /\ WF_vars(HandleEvents)
    /\ WF_vars(LoaderSend)
    /\ WF_vars(LoaderExit)

(***************************************************************************)
(* Claims about the loading screen of the terminal interface.              *)
(***************************************************************************)

\* The main loop has ended (main.rs:158-160).
HasQuit == pc = "quit"

\* C26: whatever load_data returns in the background thread, the App leaves
\* the loading state while the main loop keeps polling; loading never comes
\* back, and projects and metrics are set once, by Done, the last message.
C26_LoadingAlwaysEnds == <>(~app.loading \/ HasQuit)

\* The same when load_data returned Ok: Done is sent and polled.
C26_LoadingEndsAfterOk == IsOk(loader.outcome) => <>(~app.loading \/ HasQuit)

\* Once loading is false it stays false, and what Done set stays set.
C26_LoadedForGood ==
    [][~app.loading => /\ ~app'.loading
                       /\ app'.projects = app.projects
                       /\ app'.metrics = app.metrics]_vars

\* Done, when sent, is the last message of the thread.
C26_DoneIsLast ==
    \A i \in DOMAIN channel.queue :
        channel.queue[i].kind = "Done" => /\ i = Len(channel.queue)
                                          /\ loader.at = Len(Script(loader.outcome))

\* load_data failed, the thread is gone, and the App is still loading.
C26_StuckLoading ==
    /\ ~IsOk(loader.outcome)
    /\ ~loader.running
    /\ channel.queue = <<>>
    /\ app.loading
    /\ pc = "poll"

(***************************************************************************)
(* Claims about the selection of the terminal interface.                   *)
(***************************************************************************)

\* In the two views of one project there is a current project.
HasCurrentProject == InSessionTable(app) => IsSome(current_project(app))

\* In the two views of one project selected_session is an index of a session.
SessionInRange ==
    (InSessionTable(app) /\ IsSome(current_project(app)))
        => app.selected_session < Len(current_project(app)[1].sessions)

\* selected_project < max(1, filtered_projects.len())
ProjectInRange == app.selected_project < Max(1, Len(app.filtered_projects))

\* C27: after any keys, in ProjectDetail and SessionDetail there is a current
\* project and selected_session is below the number of its sessions, and
\* selected_project is below max(1, filtered_projects.len()).
C27_SelectionInRange == HasCurrentProject /\ SessionInRange /\ ProjectInRange

(***************************************************************************)
(* Claims about leaving a view of the terminal interface.                  *)
(***************************************************************************)

\* C28: in SessionDetail the view stack is not empty, so that a back key
\* (Esc, Left, Backspace, h) leaves SessionDetail, and the Dashboard stays
\* reachable while the program has not quit.
C28_BackLeavesSessionDetail ==
    (app # <<>> /\ app.view = "SessionDetail")
        => /\ app.view_stack # <<>>
           /\ \A code \in {"Esc", "Left", "Backspace", "h"} :
                  handle_events_on(app, Press(code)).view # "SessionDetail"

\* No key leaves the view: every key but the quitting ones keeps it.
NoKeyLeaves ==
    \A code \in CharKeys \cup NamedKeys :
        LET after == handle_events_on(app, Press(code))
        IN  after.view = app.view /\ after.view_stack = app.view_stack

\* Every key leaves SessionDetail with an empty stack as it is.
C28_TrappedForGood ==
    [][(app.view = "SessionDetail" /\ app.view_stack = <<>>)
           => (app'.view = "SessionDetail" /\ app'.view_stack = <<>>)]_vars

(***************************************************************************)
(* Claims about the project filter of the terminal interface.              *)
(***************************************************************************)

\* The indices of the projects whose name or path contains the query,
\* whatever the case of the letters; every index when the query is empty.
MatchingIndices(a) ==
    {i \in 0..(Len(a.projects) - 1) :
         \/ a.search_query = <<>>
         \/ Matches(a.projects[i + 1], lowercase(a.search_query))}

IndexSet(seq) == {seq[i] : i \in DOMAIN seq}

\* C29: once loading has completed, filtered_projects lists without
\* duplicates exactly the indices of the projects that match search_query,
\* after Enter, after '/' and after Esc too.
C29_FilterMatchesQuery ==
    ~app.loading
        => /\ NoDuplicates(app.filtered_projects)
           /\ IndexSet(app.filtered_projects) = MatchingIndices(app)

\* The list is duplicate-free and lists projects that exist, at any time.
C29_FilterIsSublist ==
    /\ NoDuplicates(app.filtered_projects)
    /\ IndexSet(app.filtered_projects) \subseteq 0..(Len(app.projects) - 1)

(***************************************************************************)
(* Claims about the view stack of the terminal interface.                  *)
(***************************************************************************)

\* Vec::last and the Vec without it
Top(stack) == stack[Len(stack)]

Front(stack) == SubSeq(stack, 1, Len(stack) - 1)

\* The views of the stack and then the current view, from the bottom up.
ViewPath(a) == Append(a.view_stack, a.view)

\* Dashboard < ProjectList < ProjectDetail < SessionDetail along the path
StrictlyOrdered(path) ==
    \A i, j \in DOMAIN path : i < j => ViewRank(path[i]) < ViewRank(path[j])

StackWellFormed(a) ==
    /\ Len(a.view_stack) <= 3
    /\ NoDuplicates(a.view_stack)
    /\ \A i \in DOMAIN a.view_stack : a.view_stack[i] # a.view
    /\ StrictlyOrdered(ViewPath(a))

\* go_back undoes the navigate_to that pushed the top entry.
GoBackUndoesNavigate(a) ==
    \A target \in {Views[i] : i \in DOMAIN Views} :
        LET back == go_back(navigate_to(a, target))
        IN  back.view = a.view /\ back.view_stack = a.view_stack

\* A step pushes the view it leaves, pops the view it enters, clears the
\* stack or keeps it.
StackStep ==
    \/ app'.view_stack = app.view_stack
    \/ app'.view_stack = <<>>
    \/ app'.view_stack = Append(app.view_stack, app.view)
    \/ app.view_stack # <<>> /\ app'.view_stack = Front(app.view_stack)
                             /\ app'.view = Top(app.view_stack)

\* C30: view_stack has at most 3 entries, no duplicates and not the current
\* view, and is strictly ordered Dashboard < ProjectList < ProjectDetail <
\* SessionDetail from the bottom up with the current view above it; go_back
\* on a stack that is not empty restores the view that was current when the
\* matching navigate_to ran, and go_back on an empty stack changes nothing.
C30_ViewStack ==
    /\ [](/\ StackWellFormed(app)
          /\ GoBackUndoesNavigate(app)
          /\ (app.view_stack = <<>> => go_back(app) = app)
          /\ (app.view_stack # <<>> => /\ go_back(app).view = Top(app.view_stack)
                                       /\ go_back(app).view_stack = Front(app.view_stack)))
    /\ [][StackStep]_vars

\* The deepest path has been walked: three views are stacked below
\* SessionDetail, and go_back returns to ProjectDetail.
C30_Witness ==
    /\ app.view = "SessionDetail"
    /\ app.view_stack = <<"Dashboard", "ProjectList", "ProjectDetail">>
    /\ go_back(app).view = "ProjectDetail"
    /\ go_back(app).view_stack = <<"Dashboard", "ProjectList">>

-----------------------------------------------------------------------------
(* Both normalizers.                                                       *)

Init == InitJsonl \/ InitCursor

Next == NextJsonl \/ NextCursor

Spec == Init /\ [][Next]_vars

=============================================================================
